---- MODULE Spec2Model ----
(***************************************************************************)
(* A model of the VideoRoom plugin handle of janode                        *)
(* (src/plugins/videoroom-plugin.js): the inbound message classifier       *)
(* handleMessage, the endpoint state it drives (room, feed), the           *)
(* transaction ledger it consumes and the request facade built on it.      *)
(***************************************************************************)
EXTENDS Integers, Sequences, FiniteSets, TLC

(***************************************************************************)
(* State.                                                                  *)
(*   room, feed : the endpoint's this.room and this.feed;                  *)
(*   tx         : the ledger entries of the endpoint's transactions;       *)
(*   inbox      : the message the transport is about to hand over;         *)
(*   handled    : what the last handleMessage call did: the message, the   *)
(*                result ("null", "event" or "throw"), janode_event, the   *)
(*                ownership test, the close operations invoked and         *)
(*                whether each closed something, the emission;             *)
(*   outcome    : how the last facade operation ended: returned with a     *)
(*                payload, or rejected with a remote error (code), a       *)
(*                contract violation (the request it names) or an input    *)
(*                error;                                                   *)
(*   sent       : the last request body sent, with the jsep attached;      *)
(*   hangups    : the hangup requests issued by the cleanup protocol;      *)
(*   hangup     : how the latest of them stands: "none", "pending", "ok"   *)
(*                or "failed" (the failure is swallowed).                  *)
(***************************************************************************)
VARIABLES room, feed, tx, inbox, handled, outcome, sent, hangups, hangup

vars == <<room, feed, tx, inbox, handled, outcome, sent, hangups, hangup>>

(***************************************************************************)
(* JavaScript values.  Every value is a record of one shape, so that any   *)
(* two values can be compared: t is the kind of the value ("null" and      *)
(* "array" told apart from "object"; TypeOf gives the result of typeof),   *)
(* n the number or boolean, s the string; for an opaque object s is a tag  *)
(* that identifies it (the type of a jsep); for an array s is the text     *)
(* the array converts to, its elements joined by commas: Arr("") is [],    *)
(* Arr("432") is [432] and ["432"], Arr("1,2") is [1, 2].                  *)
(*                                                                         *)
(* A text is held in ASCII.  A character of ASCII stands for itself, a     *)
(* backslash excepted, which is written as two; a character outside ASCII  *)
(* is written as JSON writes it, by the escape \uXXXX of each of its       *)
(* UTF-16 code units, XXXX being four hexadecimal digits.  In the notation *)
(* of this module, where a backslash in a string is itself doubled:        *)
(* Str("\\u00a0432") is the text of a no-break space followed by 432,      *)
(* Str("\\u00e9432") the text of e-acute followed by 432 and               *)
(* Str("\\ud83d\\ude00") the text of one character above U+FFFF.  The      *)
(* operators never hold a character outside ASCII, so what they give does  *)
(* not depend on how such a character is read.                             *)
(***************************************************************************)
Undef == [t |-> "undefined", n |-> 0, s |-> ""]

Null == [t |-> "null", n |-> 0, s |-> ""]

Num(k) == [t |-> "number", n |-> k, s |-> ""]

Str(x) == [t |-> "string", n |-> 0, s |-> x]

Bool(b) == [t |-> "boolean", n |-> IF b THEN 1 ELSE 0, s |-> ""]

Obj(tag) == [t |-> "object", n |-> 0, s |-> tag]

Arr(text) == [t |-> "array", n |-> 0, s |-> text]

\* typeof v: 'object' for an object, for an array and for null.
TypeOf(v) == IF v.t \in {"object", "array", "null"} THEN "object" ELSE v.t

\* typeof v !== 'undefined'
IsDefined(v) == v.t # "undefined"

\* The truthiness test of "if (v)".
Truthy(v) ==
  CASE v.t = "undefined" -> FALSE
    [] v.t = "null" -> FALSE
    [] v.t = "boolean" -> v.n = 1
    [] v.t = "number" -> v.n # 0
    [] v.t = "string" -> v.s # ""
    [] OTHER -> TRUE

(***************************************************************************)
(* The number a value is converted to when it is compared with a number    *)
(* (>=, <=, !=), as far as a comparison with an integer can tell: nan is   *)
(* TRUE when the conversion gives NaN; otherwise n is the greatest integer *)
(* that is not above the number and whole is TRUE when the number is that  *)
(* integer.  The number is the double nearest to the value written in the  *)
(* text, so a value within half a unit in the last place of an integer is  *)
(* that integer.  A text that reads as a number of magnitude Huge or       *)
(* more, an infinity included, is given Huge or -Huge: the comparisons are *)
(* exact with the integers between them.                                   *)
(***************************************************************************)
Huge == 1000000000

NaN == [nan |-> TRUE, n |-> 0, whole |-> FALSE]

Whole(k) == [nan |-> FALSE, n |-> k, whole |-> TRUE]

Between(k) == [nan |-> FALSE, n |-> k, whole |-> FALSE]

Char(x, k) == SubSeq(x, k, k)

Least(S) == CHOOSE k \in S : \A j \in S : k <= j

Greatest(S) == CHOOSE k \in S : \A j \in S : k >= j

Digits ==
  ("0" :> 0) @@ ("1" :> 1) @@ ("2" :> 2) @@ ("3" :> 3) @@ ("4" :> 4) @@
  ("5" :> 5) @@ ("6" :> 6) @@ ("7" :> 7) @@ ("8" :> 8) @@ ("9" :> 9)

HexDigits ==
  Digits @@
  ("a" :> 10) @@ ("b" :> 11) @@ ("c" :> 12) @@ ("d" :> 13) @@ ("e" :> 14) @@
  ("f" :> 15) @@
  ("A" :> 10) @@ ("B" :> 11) @@ ("C" :> 12) @@ ("D" :> 13) @@ ("E" :> 14) @@
  ("F" :> 15)

\* The digits of a radix.
DigitsOf(radix) == {c \in DOMAIN HexDigits : HexDigits[c] < radix}

\* A text made of the digits of the radix only (the empty text is).
IsDigits(x, radix) == \A k \in 1..Len(x) : Char(x, k) \in DigitsOf(radix)

IsDecimal(x) == IsDigits(x, 10)

\* The text without its leading zeros.
Significant(x) ==
  LET nz == {k \in 1..Len(x) : Char(x, k) # "0"}
  IN IF nz = {} THEN "" ELSE SubSeq(x, Least(nz), Len(x))

\* The value of a text of digits, Huge when it is Huge or more.
RECURSIVE RadixValue(_, _)
RadixValue(x, radix) ==
  IF Len(x) = 0 THEN 0
  ELSE LET high == RadixValue(SubSeq(x, 1, Len(x) - 1), radix)
           low == HexDigits[Char(x, Len(x))]
       IN IF high > (Huge - low) \div radix THEN Huge ELSE high * radix + low

\* The white space of ASCII that is dropped around the text of a number:
\* space, tab, line feed, carriage return, form feed and vertical tab.
AsciiWhiteSpace == {" ", "\t", "\n", "\r", "\f", ""}

\* The code units of the white space and of the line terminators outside
\* ASCII: U+00A0, U+1680, U+2000 to U+200A, U+2028, U+2029, U+202F, U+205F,
\* U+3000 and U+FEFF.
WhiteSpaceCodes ==
  {160, 5760} \cup (8192..8202) \cup {8232, 8233, 8239, 8287, 12288, 65279}

\* The number of backslashes right before element k of the text.
BackslashesBefore(x, k) ==
  LET others == {j \in 1..(k - 1) : Char(x, j) # "\\"}
  IN (k - 1) - (IF others = {} THEN 0 ELSE Greatest(others))

\* Element k of the text starts the escape \uXXXX of a code unit: the
\* backslashes before it, if any, pair up as written backslashes.
IsEscape(x, k) ==
  /\ k + 5 <= Len(x)
  /\ SubSeq(x, k, k + 1) = "\\u"
  /\ IsDigits(SubSeq(x, k + 2, k + 5), 16)
  /\ BackslashesBefore(x, k) % 2 = 0

\* The code unit the escape at element k writes.
CodeUnit(x, k) == RadixValue(SubSeq(x, k + 2, k + 5), 16)

\* Element k of the text belongs to a white space character.
IsWhiteSpace(x, k) ==
  \/ Char(x, k) \in AsciiWhiteSpace
  \/ \E from \in (k - 5)..k :
       from >= 1 /\ IsEscape(x, from) /\ CodeUnit(x, from) \in WhiteSpaceCodes

\* The text without the white space and the line terminators around it.
Trim(x) ==
  LET kept == {k \in 1..Len(x) : ~IsWhiteSpace(x, k)}
  IN IF kept = {} THEN "" ELSE SubSeq(x, Least(kept), Greatest(kept))

\* A text of 31 significant digits is 2^30 or more in every radix.
IntegerValue(x, radix) ==
  IF Len(Significant(x)) > 30 THEN Huge ELSE RadixValue(Significant(x), radix)

DecimalValue(x) == IntegerValue(x, 10)

\* 0x, 0o and 0b literals: the radix, 0 when the text is not one.
RadixOf(x) ==
  IF Len(x) < 3 \/ Char(x, 1) # "0" THEN 0
  ELSE CASE Char(x, 2) \in {"x", "X"} -> 16
         [] Char(x, 2) \in {"o", "O"} -> 8
         [] Char(x, 2) \in {"b", "B"} -> 2
         [] OTHER -> 0

\* The first place of the text that holds one of the characters, 0 if none.
IndexOf(x, chars) ==
  LET at == {k \in 1..Len(x) : Char(x, k) \in chars}
  IN IF at = {} THEN 0 ELSE Least(at)

\* The integer written by the digits d[from] .. d[to] of a sequence of
\* digits, at most 9 of them; the places outside the sequence hold 0.
RECURSIVE Window(_, _, _)
Window(d, from, to) ==
  IF to < from THEN 0
  ELSE 10 * Window(d, from, to - 1) + (IF to >= 1 /\ to <= Len(d) THEN d[to] ELSE 0)

\* The digits of the decimal fraction 0.d1 d2 ... divided by 2^k, k <= 9:
\* the long division, whose remainder before a place is what the k digits
\* before it leave, 10^k being a multiple of 2^k.
Shrink(d, k) ==
  SubSeq([i \in 1..(Len(d) + k) |->
            (10 * (Window(d, i - k, i - 1) % (2 ^ k)) + Window(d, i, i)) \div (2 ^ k)],
         1, Len(d) + k)

\* The digits of the fraction 2^-m, m digits of them.
RECURSIVE HalfPower(_)
HalfPower(m) ==
  IF m <= 10 THEN Shrink(<<5>>, m - 1) ELSE Shrink(HalfPower(m - 9), 9)

\* The significant digits of 2^-1075, half the least double: 5^1075.
LeastHalfDigits ==
  "2470328229206232720882843964341106861825299013071623822127928412"
  \o "5033775363510437593264991818081799618989828234772285886546332835"
  \o "5177969898199387398005390939063150356595155702263922908583924491"
  \o "0518443593180284993653615250031937045767824921936562366986365848"
  \o "0757001585769269903706311928279558551332927834338409351978015531"
  \o "2465972635795746227664652728272200563740064854999770965994704540"
  \o "2082816622623785739345073633900796776193057750674017632467360096"
  \o "8951340535537458516661134223766678604162159680461914467291840300"
  \o "5300575308490487653917113865916462395249126236538818796362393732"
  \o "8042389101867234849766823508986338858792562830275599565752445550"
  \o "7255189313690836254779186948667994968324049705821028513185451396"
  \o "213837722826145437693412532098591327667236328125"

LeastHalf ==
  SubSeq([j \in 1..1075 |->
            IF j <= 1075 - Len(LeastHalfDigits) THEN 0
            ELSE Digits[Char(LeastHalfDigits, j - (1075 - Len(LeastHalfDigits)))]],
         1, 1075)

\* floor(log2(k)) of a positive integer below 2^30.
Binade(k) == CHOOSE p \in 0..29 : 2 ^ p <= k /\ k < 2 * (2 ^ p)

PowerOfTwo(k) == k = 2 ^ Binade(k)

\* Half the distance from the integer k >= 0 to the next double above it,
\* and to the next double below it (k >= 1): the fraction 2^-m, as m.
HalfUlpAbove(k) == IF k = 0 THEN 1075 ELSE 53 - Binade(k)

HalfUlpBelow(k) == IF PowerOfTwo(k) THEN 54 - Binade(k) ELSE 53 - Binade(k)

\* The digits of 2^-m, for the m above.
HalfUlp(m) == IF m = 1075 THEN LeastHalf ELSE HalfPower(m)

\* The digit at place j of a sequence of digits, 0 after its last.
DigitAt(d, j) == IF j <= Len(d) THEN d[j] ELSE 0

\* The fraction 0.a1 a2 ... is at most, at least, the fraction 0.b1 b2 ...
AtMost(a, b) ==
  LET differs == {j \in 1..(Len(a) + Len(b)) : DigitAt(a, j) # DigitAt(b, j)}
  IN differs = {} \/ DigitAt(a, Least(differs)) < DigitAt(b, Least(differs))

AtLeast(a, b) == AtMost(b, a)

\* The digits of 1 - 0.d1 d2 ..., the last digit of d not being 0.
Complement(d) ==
  SubSeq([j \in 1..Len(d) |-> IF j < Len(d) THEN 9 - d[j] ELSE 10 - d[j]], 1, Len(d))

\* The fraction is at most 2^-m; it lacks at most 2^-m to be 1.  2^-m is
\* below 10^-(m \div 4): such a fraction starts with m \div 4 zeros, or
\* with as many nines.
RoundsDown(frac, m) ==
  (\A j \in 1..(m \div 4) : DigitAt(frac, j) = 0) /\ AtMost(frac, HalfUlp(m))

RoundsUp(frac, m) ==
  (\A j \in 1..(m \div 4) : DigitAt(frac, j) = 9) /\ AtLeast(frac, Complement(HalfUlp(m)))

(***************************************************************************)
(* The double nearest to int + 0.f1 f2 ... (frac is the sequence of the    *)
(* digits f), 0 <= int < Huge: int when the fraction is at most half the   *)
(* distance to the next double above int, int + 1 when it lacks at most    *)
(* half the distance from int + 1 to the next double below it (a tie goes  *)
(* to the integer, whose significand is even), a number between the two    *)
(* otherwise.                                                              *)
(***************************************************************************)
Nearest(int, frac) ==
  IF \A j \in 1..Len(frac) : frac[j] = 0 THEN Whole(int)
  ELSE IF RoundsDown(frac, HalfUlpAbove(int)) THEN Whole(int)
  ELSE IF RoundsUp(frac, HalfUlpBelow(int + 1)) THEN Whole(int + 1)
  ELSE Between(int)

\* The digits of a text of decimal digits, from the place after before on
\* (0 at the places before the text).
FractionPart(digits, before) ==
  SubSeq([j \in 1..(Len(digits) - before) |->
            IF before + j >= 1 THEN Digits[Char(digits, before + j)] ELSE 0],
         1, Len(digits) - before)

\* The integer written by the first before digits of a text of decimal
\* digits, with zeros after the text, at most 9 digits in all.
IntegerPart(digits, before) ==
  IF before <= 0 THEN 0
  ELSE IF before <= Len(digits) THEN RadixValue(SubSeq(digits, 1, before), 10)
  ELSE RadixValue(digits, 10) * (10 ^ (before - Len(digits)))

\* The number 0.d1 d2 ... * 10^before, d1 not being 0: Huge from 10^9 on;
\* 0 below 10^-330, which is below half the least double, 2^-1075.
Placed(digits, before) ==
  IF digits = "" THEN Whole(0)
  ELSE IF before > 9 THEN Whole(Huge)
  ELSE IF before < 0 - 330 THEN Whole(0)
  ELSE Nearest(IntegerPart(digits, before),
               IF before < Len(digits) THEN FractionPart(digits, before) ELSE <<>>)

\* The number int.frac * 10^raised of two texts, NaN unless they are
\* decimal digits, one at least.
Fixed(int, frac, raised) ==
  IF ~IsDecimal(int) \/ ~IsDecimal(frac) \/ Len(int) + Len(frac) = 0 THEN NaN
  ELSE Placed(Significant(int \o frac),
              Len(Significant(int \o frac)) - Len(frac) + raised)

\* The number of a mantissa, digits with or without a point, times
\* 10^raised.
Mantissa(x, point, raised) ==
  IF point = 0 THEN Fixed(x, "", raised)
  ELSE Fixed(SubSeq(x, 1, point - 1), SubSeq(x, point + 1, Len(x)), raised)

\* The number of a mantissa with the exponent written by power, a text of
\* decimal digits, one at least; the exponent is capped where the number
\* is Huge or 0 whatever the digits.
Raised(x, power, negative, cap) ==
  IF Len(power) = 0 \/ ~IsDecimal(power) THEN NaN
  ELSE Mantissa(x, IndexOf(x, {"."}),
                IF negative
                THEN 0 - (IF DecimalValue(power) > cap THEN cap ELSE DecimalValue(power))
                ELSE IF DecimalValue(power) > cap THEN cap ELSE DecimalValue(power))

\* The number of a mantissa and of the text after the exponent mark.
Exponent(x, exponent, cap) ==
  IF Len(exponent) > 0 /\ Char(exponent, 1) \in {"+", "-"}
  THEN Raised(x, SubSeq(exponent, 2, Len(exponent)), Char(exponent, 1) = "-", cap)
  ELSE Raised(x, exponent, FALSE, cap)

\* The number of a text with its exponent mark at place e, 0 if it has none.
Scientific(x, e) ==
  IF e = 0 THEN Mantissa(x, IndexOf(x, {"."}), 0)
  ELSE Exponent(SubSeq(x, 1, e - 1), SubSeq(x, e + 1, Len(x)), Len(x) + 340)

\* The number of an unsigned decimal literal: Infinity, or digits, a point
\* and digits, an exponent; NaN when the text is not one.
UnsignedDecimal(x) ==
  IF x = "Infinity" THEN Whole(Huge) ELSE Scientific(x, IndexOf(x, {"e", "E"}))

\* The number of size with a sign.
Signed(negative, size) ==
  IF size.nan \/ ~negative THEN size
  ELSE IF size.whole THEN Whole(0 - size.n)
  ELSE Between(0 - size.n - 1)

\* The number of a literal in radix 16, 8 or 2.
RadixLiteral(digits, radix) ==
  IF IsDigits(digits, radix) THEN Whole(IntegerValue(digits, radix)) ELSE NaN

\* The number of a text without white space around it: the empty text is
\* 0; a literal in radix 16, 8 or 2 has no sign; a decimal literal may.
Literal(x) ==
  IF x = "" THEN Whole(0)
  ELSE IF RadixOf(x) # 0 THEN RadixLiteral(SubSeq(x, 3, Len(x)), RadixOf(x))
  ELSE IF Char(x, 1) \in {"+", "-"}
       THEN Signed(Char(x, 1) = "-", UnsignedDecimal(SubSeq(x, 2, Len(x))))
  ELSE UnsignedDecimal(x)

StringToNumber(text) == Literal(Trim(text))

\* An array is converted through its text, an object has the text
\* "[object Object]", which is no number.
ToNumber(v) ==
  CASE v.t \in {"number", "boolean"} -> Whole(v.n)
    [] v.t = "null" -> Whole(0)
    [] v.t \in {"string", "array"} -> StringToNumber(v.s)
    [] OTHER -> NaN

\* Mutant of the sentinel test: the comparison ignores case.
IsOkAnyCase(v) == v \in {Str("ok"), Str("OK")}

\* v === 'ok'
IsOkSentinel(v) == v = Str("ok")

(***************************************************************************)
(* The event names of the plugin (PLUGIN_EVENT).  NoEvent is the null      *)
(* that janode_event.event holds until a name is assigned.                 *)
(***************************************************************************)
PLUGIN_EVENT ==
  [PUB_JOINED |-> "videoroom_joined",
   SUB_JOINED |-> "videoroom_subscribed",
   PUB_LIST |-> "videoroom_publisher_list",
   PARTICIPANTS_LIST |-> "videoroom_participants_list",
   PUB_PEER_JOINED |-> "videoroom_publisher_joined",
   STARTED |-> "videoroom_started",
   PAUSED |-> "videoroom_paused",
   CONFIGURED |-> "videoroom_configured",
   SLOW_LINK |-> "videoroom_slowlink",
   DISPLAY |-> "videoroom_display",
   UNPUBLISHED |-> "videoroom_unpublished",
   LEAVING |-> "videoroom_leaving",
   KICKED |-> "videoroom_kicked",
   ALLOWED |-> "videoroom_allowed",
   EXISTS |-> "videoroom_exists",
   ROOMS_LIST |-> "videoroom_list",
   CREATED |-> "videoroom_created",
   DESTROYED |-> "videoroom_destroyed",
   RTP_FWD_STARTED |-> "videoroom_rtp_fwd_started",
   RTP_FWD_STOPPED |-> "videoroom_rtp_fwd_stopped",
   RTP_FWD_LIST |-> "videoroom_rtp_fwd_list",
   SUCCESS |-> "videoroom_success",
   ERROR |-> "videoroom_error"]

NoEvent == "null"

(***************************************************************************)
(* Inbound messages.  A janus_message is                                   *)
(*   plugindata : "absent" (no plugindata), "nodata" (plugindata without   *)
(*                data) or "data";                                         *)
(*   transaction, jsep : values;                                           *)
(*   md : the scalar fields of plugindata.data, Undef when absent;         *)
(*   publishers, participants, rtp_forwarders : lists, t = "undefined"     *)
(*                when absent, else "array" with the items;                *)
(*   joining, rtp_stream : nested objects, t = "undefined" when absent.    *)
(***************************************************************************)
MsgFields ==
  {"videoroom", "error", "error_code", "room", "id", "exists", "list",
   "allowed", "description", "display", "current-bitrate", "permanent",
   "publisher_id", "stream_id", "configured", "started", "paused",
   "unpublished", "leaving", "reason", "kicked", "left", "feed"}

NoList == [t |-> "undefined", items |-> <<>>]

List(items) == [t |-> "array", items |-> items]

NoJoining == [t |-> "undefined", id |-> Undef, display |-> Undef]

Joining(id, display) == [t |-> "object", id |-> id, display |-> display]

NoRtpStream ==
  [t |-> "undefined", host |-> Undef,
   audio |-> Undef, audio_rtcp |-> Undef, audio_stream_id |-> Undef,
   video |-> Undef, video_rtcp |-> Undef, video_stream_id |-> Undef,
   data |-> Undef, data_stream_id |-> Undef]

NoData == [f \in MsgFields |-> Undef]

\* A message of the plugin whose data block holds only the discriminant.
Msg(videoroom, transaction) ==
  [plugindata |-> "data", transaction |-> transaction, jsep |-> Undef,
   md |-> [NoData EXCEPT !["videoroom"] = videoroom],
   publishers |-> NoList, participants |-> NoList, rtp_forwarders |-> NoList,
   joining |-> NoJoining, rtp_stream |-> NoRtpStream]

\* The message m with the scalar field f of its data block set to v.
With(m, f, v) == [m EXCEPT !.md[f] = v]

(***************************************************************************)
(* The output event (janode_event): the name, the scalar members of data   *)
(* (Undef when not set), the projected lists and, for an error, the Error  *)
(* object that replaces data: isError with _code in data["_code"], and the *)
(* two parts of its message `${error_code} ${error}` in data["error_code"] *)
(* and data["error"].                                                      *)
(***************************************************************************)
DataFields ==
  {"jsep", "room", "feed", "exists", "list", "description", "display",
   "bitrate", "permanent", "stream", "configured", "started", "paused",
   "reason", "restart", "update", "_code", "error_code", "error"}

NoForwarder ==
  [t |-> "undefined", host |-> Undef,
   audio_port |-> Undef, audio_rtcp_port |-> Undef, audio_stream |-> Undef,
   video_port |-> Undef, video_rtcp_port |-> Undef, video_stream |-> Undef,
   data_port |-> Undef, data_stream |-> Undef]

EmptyEvent ==
  [event |-> NoEvent, isError |-> FALSE,
   data |-> [f \in DataFields |-> Undef],
   publishers |-> NoList, participants |-> NoList,
   forwarder |-> NoForwarder, forwarders |-> NoList]

\* ev with the name set.
Named(ev, name) == [ev EXCEPT !.event = name]

\* ev with the member f of its data set to v.
Put(ev, f, v) == [ev EXCEPT !.data[f] = v]

\* array.map(f) for a sequence.
MapSeq(F(_), s) == [i \in 1..Len(s) |-> F(s[i])]

(***************************************************************************)
(* handleMessage, branch by branch.  ev is janode_event as it stands when  *)
(* the switch is entered, m the janus_message, thisFeed the endpoint's     *)
(* this.feed.                                                              *)
(***************************************************************************)

\* if (plugindata && plugindata.data && plugindata.data.videoroom)
IsPluginMessage(m) == m.plugindata = "data" /\ Truthy(m.md["videoroom"])

\* janode_event before the switch: jsep and room are copied when truthy.
InitialEvent(m) ==
  LET e1 == IF Truthy(m.jsep) THEN Put(EmptyEvent, "jsep", m.jsep) ELSE EmptyEvent
  IN IF Truthy(m.md["room"]) THEN Put(e1, "room", m.md["room"]) ELSE e1

\* Mutant of the 'success' branch: the fields are tested for truthiness
\* instead of presence.
SuccessEventTruthy(ev, m) ==
  IF Truthy(m.md["exists"])
    THEN Named(Put(ev, "exists", m.md["exists"]), PLUGIN_EVENT.EXISTS)
  ELSE IF Truthy(m.md["list"])
    THEN Named(Put(ev, "list", m.md["list"]), PLUGIN_EVENT.ROOMS_LIST)
  ELSE IF Truthy(m.md["allowed"])
    THEN Named(Put(ev, "list", m.md["allowed"]), PLUGIN_EVENT.ALLOWED)
  ELSE Named(ev, PLUGIN_EVENT.SUCCESS)

\* case 'success'
SuccessEvent(ev, m) ==
  IF IsDefined(m.md["exists"])
    THEN Named(Put(ev, "exists", m.md["exists"]), PLUGIN_EVENT.EXISTS)
  ELSE IF IsDefined(m.md["list"])
    THEN Named(Put(ev, "list", m.md["list"]), PLUGIN_EVENT.ROOMS_LIST)
  ELSE IF IsDefined(m.md["allowed"])
    THEN Named(Put(ev, "list", m.md["allowed"]), PLUGIN_EVENT.ALLOWED)
  ELSE Named(ev, PLUGIN_EVENT.SUCCESS)

\* ({ id, display }) => ({ feed: id, display })
PublisherEntry(p) == [feed |-> p.id, display |-> p.display]

\* Mutant of the projection: the entries come out in reverse order.
ProjectPublishersReversed(list) ==
  List([k \in 1..Len(list.items) |->
          PublisherEntry(list.items[Len(list.items) + 1 - k])])

\* message_data.publishers.map(...)
ProjectPublishers(list) == List(MapSeq(PublisherEntry, list.items))

\* case 'joined'
JoinedEvent(ev, m) ==
  LET e1 == Put(Put(ev, "feed", m.md["id"]), "description", m.md["description"])
  IN Named([e1 EXCEPT !.publishers = ProjectPublishers(m.publishers)],
           PLUGIN_EVENT.PUB_JOINED)

\* case 'attached'
AttachedEvent(ev, m) ==
  Named(Put(Put(ev, "feed", m.md["id"]), "display", m.md["display"]),
        PLUGIN_EVENT.SUB_JOINED)

\* Mutant of 'slow_link': the feed is the one the message names.
SlowLinkEventOwnFeed(ev, m, thisFeed) ==
  Named(Put(Put(ev, "feed", m.md["feed"]), "bitrate", m.md["current-bitrate"]),
        PLUGIN_EVENT.SLOW_LINK)

\* case 'slow_link'
SlowLinkEvent(ev, m, thisFeed) ==
  Named(Put(Put(ev, "feed", thisFeed), "bitrate", m.md["current-bitrate"]),
        PLUGIN_EVENT.SLOW_LINK)

\* ({ id, display, publisher }) => ({ feed: id, display, publisher })
ParticipantEntry(p) == [feed |-> p.id, display |-> p.display, publisher |-> p.publisher]

\* case 'participants'
ParticipantsEvent(ev, m) ==
  Named([ev EXCEPT !.participants = List(MapSeq(ParticipantEntry, m.participants.items))],
        PLUGIN_EVENT.PARTICIPANTS_LIST)

\* case 'created'
CreatedEvent(ev, m) ==
  Put(Named(ev, PLUGIN_EVENT.CREATED), "permanent", m.md["permanent"])

\* Mutant of the 'destroyed' branch: the discriminant is used as the name.
DestroyedEventRawName(ev, m) == Named(ev, "destroyed")

\* case 'destroyed'
DestroyedEvent(ev, m) == Named(ev, PLUGIN_EVENT.DESTROYED)

\* Mutant of the descriptor: a media type's fields are projected whenever
\* its port is reported, zero included.
StreamForwarderWhenReported(rs) ==
  LET f0 == [NoForwarder EXCEPT !.t = "object", !.host = rs.host]
      f1 == IF IsDefined(rs.audio)
              THEN [f0 EXCEPT !.audio_port = rs.audio,
                              !.audio_rtcp_port = rs.audio_rtcp,
                              !.audio_stream = rs.audio_stream_id]
              ELSE f0
      f2 == IF IsDefined(rs.video)
              THEN [f1 EXCEPT !.video_port = rs.video,
                              !.video_rtcp_port = rs.video_rtcp,
                              !.video_stream = rs.video_stream_id]
              ELSE f1
  IN IF IsDefined(rs.data)
       THEN [f2 EXCEPT !.data_port = rs.data, !.data_stream = rs.data_stream_id]
       ELSE f2

\* The forwarder descriptor of an 'rtp_forward' message.
StreamForwarder(rs) ==
  LET f0 == [NoForwarder EXCEPT !.t = "object", !.host = rs.host]
      f1 == IF Truthy(rs.audio)
              THEN [f0 EXCEPT !.audio_port = rs.audio,
                              !.audio_rtcp_port = rs.audio_rtcp,
                              !.audio_stream = rs.audio_stream_id]
              ELSE f0
      f2 == IF Truthy(rs.video)
              THEN [f1 EXCEPT !.video_port = rs.video,
                              !.video_rtcp_port = rs.video_rtcp,
                              !.video_stream = rs.video_stream_id]
              ELSE f1
  IN IF Truthy(rs.data)
       THEN [f2 EXCEPT !.data_port = rs.data, !.data_stream = rs.data_stream_id]
       ELSE f2

\* case 'rtp_forward'
RtpForwardEvent(ev, m) ==
  Named([Put(ev, "feed", m.md["publisher_id"]) EXCEPT
           !.forwarder = StreamForwarder(m.rtp_stream)],
        PLUGIN_EVENT.RTP_FWD_STARTED)

\* case 'stop_rtp_forward'
StopRtpForwardEvent(ev, m) ==
  Named(Put(Put(ev, "feed", m.md["publisher_id"]), "stream", m.md["stream_id"]),
        PLUGIN_EVENT.RTP_FWD_STOPPED)

\* Mutant of the snapshot descriptor: the rtcp port is not projected.
ListedForwarderNoRtcp(forw) ==
  LET f0 == [NoForwarder EXCEPT !.t = "object", !.host = forw.ip]
      f1 == IF Truthy(forw.audio_stream_id)
              THEN [f0 EXCEPT !.audio_port = forw.port,
                              !.audio_stream = forw.audio_stream_id]
              ELSE f0
      f2 == IF Truthy(forw.video_stream_id)
              THEN [f1 EXCEPT !.video_port = forw.port,
                              !.video_stream = forw.video_stream_id]
              ELSE f1
  IN IF Truthy(forw.data_stream_id)
       THEN [f2 EXCEPT !.data_port = forw.port, !.data_stream = forw.data_stream_id]
       ELSE f2

\* The forwarder descriptor of one entry of a 'forwarders' snapshot.
ListedForwarder(forw) ==
  LET f0 == [NoForwarder EXCEPT !.t = "object", !.host = forw.ip]
      f1 == IF Truthy(forw.audio_stream_id)
              THEN [f0 EXCEPT !.audio_port = forw.port,
                              !.audio_rtcp_port = forw.remote_rtcp_port,
                              !.audio_stream = forw.audio_stream_id]
              ELSE f0
      f2 == IF Truthy(forw.video_stream_id)
              THEN [f1 EXCEPT !.video_port = forw.port,
                              !.video_rtcp_port = forw.remote_rtcp_port,
                              !.video_stream = forw.video_stream_id]
              ELSE f1
  IN IF Truthy(forw.data_stream_id)
       THEN [f2 EXCEPT !.data_port = forw.port, !.data_stream = forw.data_stream_id]
       ELSE f2

\* ({ publisher_id, rtp_forwarder }) => ({ feed, forwarders })
PublisherForwarders(p) ==
  [feed |-> p.publisher_id, forwarders |-> MapSeq(ListedForwarder, p.rtp_forwarder)]

\* case 'forwarders'
ForwardersEvent(ev, m) ==
  Named([ev EXCEPT !.forwarders = List(MapSeq(PublisherForwarders, m.rtp_forwarders.items))],
        PLUGIN_EVENT.RTP_FWD_LIST)

\* Mutant of the error: the code is not copied to the Error object.
ErrorEventNoCode(m) ==
  [EmptyEvent EXCEPT !.event = PLUGIN_EVENT.ERROR, !.isError = TRUE,
                     !.data["error_code"] = m.md["error_code"],
                     !.data["error"] = m.md["error"]]

\* new Error(`${error_code} ${error}`) with _code: it replaces data.
ErrorEvent(m) ==
  [EmptyEvent EXCEPT !.event = PLUGIN_EVENT.ERROR, !.isError = TRUE,
                     !.data["_code"] = m.md["error_code"],
                     !.data["error_code"] = m.md["error_code"],
                     !.data["error"] = m.md["error"]]

\* The feed of an unpublished or leaving notification: the 'ok' sentinel
\* stands for the endpoint itself.
SentinelFeed(v, thisFeed) == IF IsOkSentinel(v) THEN thisFeed ELSE v

\* if (error): the branch that also closes the transaction with error.
IsErrorEvent(m) == m.md["videoroom"] = Str("event") /\ Truthy(m.md["error"])

\* Mutants of the chain: unpublished is tested before display; kicked is
\* tested before leaving.
GenericEventUnpublishedFirst(ev, m, thisFeed) ==
  IF Truthy(m.md["error"]) THEN ErrorEvent(m)
  ELSE IF m.joining.t = "object"
    THEN LET e1 == Put(Named(ev, PLUGIN_EVENT.PUB_PEER_JOINED), "feed", m.joining.id)
         IN IF Truthy(m.joining.display) THEN Put(e1, "display", m.joining.display) ELSE e1
  ELSE IF m.publishers.t = "array"
    THEN [Named(ev, PLUGIN_EVENT.PUB_LIST) EXCEPT
            !.publishers = ProjectPublishers(m.publishers)]
  ELSE IF IsDefined(m.md["configured"])
    THEN Put(Put(Named(ev, PLUGIN_EVENT.CONFIGURED), "feed", thisFeed),
             "configured", m.md["configured"])
  ELSE IF IsDefined(m.md["unpublished"])
    THEN Put(Named(ev, PLUGIN_EVENT.UNPUBLISHED), "feed",
             SentinelFeed(m.md["unpublished"], thisFeed))
  ELSE IF IsDefined(m.md["started"])
    THEN Put(Put(Named(ev, PLUGIN_EVENT.STARTED), "feed", thisFeed),
             "started", m.md["started"])
  ELSE IF IsDefined(m.md["paused"])
    THEN Put(Put(Named(ev, PLUGIN_EVENT.PAUSED), "feed", thisFeed),
             "paused", m.md["paused"])
  ELSE IF IsDefined(m.md["display"])
    THEN Put(Put(Named(ev, PLUGIN_EVENT.DISPLAY), "feed", m.md["id"]),
             "display", m.md["display"])
  ELSE IF IsDefined(m.md["leaving"])
    THEN LET e1 == Put(Named(ev, PLUGIN_EVENT.LEAVING), "feed",
                       SentinelFeed(m.md["leaving"], thisFeed))
         IN IF Truthy(m.md["reason"]) THEN Put(e1, "reason", m.md["reason"]) ELSE e1
  ELSE IF IsDefined(m.md["kicked"])
    THEN Put(Named(ev, PLUGIN_EVENT.KICKED), "feed", m.md["kicked"])
  ELSE IF IsDefined(m.md["left"])
    THEN Put(Named(ev, PLUGIN_EVENT.LEAVING), "feed", thisFeed)
  ELSE ev

GenericEventKickedFirst(ev, m, thisFeed) ==
  IF Truthy(m.md["error"]) THEN ErrorEvent(m)
  ELSE IF m.joining.t = "object"
    THEN LET e1 == Put(Named(ev, PLUGIN_EVENT.PUB_PEER_JOINED), "feed", m.joining.id)
         IN IF Truthy(m.joining.display) THEN Put(e1, "display", m.joining.display) ELSE e1
  ELSE IF m.publishers.t = "array"
    THEN [Named(ev, PLUGIN_EVENT.PUB_LIST) EXCEPT
            !.publishers = ProjectPublishers(m.publishers)]
  ELSE IF IsDefined(m.md["configured"])
    THEN Put(Put(Named(ev, PLUGIN_EVENT.CONFIGURED), "feed", thisFeed),
             "configured", m.md["configured"])
  ELSE IF IsDefined(m.md["display"])
    THEN Put(Put(Named(ev, PLUGIN_EVENT.DISPLAY), "feed", m.md["id"]),
             "display", m.md["display"])
  ELSE IF IsDefined(m.md["started"])
    THEN Put(Put(Named(ev, PLUGIN_EVENT.STARTED), "feed", thisFeed),
             "started", m.md["started"])
  ELSE IF IsDefined(m.md["paused"])
    THEN Put(Put(Named(ev, PLUGIN_EVENT.PAUSED), "feed", thisFeed),
             "paused", m.md["paused"])
  ELSE IF IsDefined(m.md["unpublished"])
    THEN Put(Named(ev, PLUGIN_EVENT.UNPUBLISHED), "feed",
             SentinelFeed(m.md["unpublished"], thisFeed))
  ELSE IF IsDefined(m.md["kicked"])
    THEN Put(Named(ev, PLUGIN_EVENT.KICKED), "feed", m.md["kicked"])
  ELSE IF IsDefined(m.md["leaving"])
    THEN LET e1 == Put(Named(ev, PLUGIN_EVENT.LEAVING), "feed",
                       SentinelFeed(m.md["leaving"], thisFeed))
         IN IF Truthy(m.md["reason"]) THEN Put(e1, "reason", m.md["reason"]) ELSE e1
  ELSE IF IsDefined(m.md["left"])
    THEN Put(Named(ev, PLUGIN_EVENT.LEAVING), "feed", thisFeed)
  ELSE ev

\* case 'event': the chain of tests, the first that passes decides.
GenericEvent(ev, m, thisFeed) ==
  IF Truthy(m.md["error"]) THEN ErrorEvent(m)
  ELSE IF m.joining.t = "object"
    THEN LET e1 == Put(Named(ev, PLUGIN_EVENT.PUB_PEER_JOINED), "feed", m.joining.id)
         IN IF Truthy(m.joining.display) THEN Put(e1, "display", m.joining.display) ELSE e1
  ELSE IF m.publishers.t = "array"
    THEN [Named(ev, PLUGIN_EVENT.PUB_LIST) EXCEPT
            !.publishers = ProjectPublishers(m.publishers)]
  ELSE IF IsDefined(m.md["configured"])
    THEN Put(Put(Named(ev, PLUGIN_EVENT.CONFIGURED), "feed", thisFeed),
             "configured", m.md["configured"])
  ELSE IF IsDefined(m.md["display"])
    THEN Put(Put(Named(ev, PLUGIN_EVENT.DISPLAY), "feed", m.md["id"]),
             "display", m.md["display"])
  ELSE IF IsDefined(m.md["started"])
    THEN Put(Put(Named(ev, PLUGIN_EVENT.STARTED), "feed", thisFeed),
             "started", m.md["started"])
  ELSE IF IsDefined(m.md["paused"])
    THEN Put(Put(Named(ev, PLUGIN_EVENT.PAUSED), "feed", thisFeed),
             "paused", m.md["paused"])
  ELSE IF IsDefined(m.md["unpublished"])
    THEN Put(Named(ev, PLUGIN_EVENT.UNPUBLISHED), "feed",
             SentinelFeed(m.md["unpublished"], thisFeed))
  ELSE IF IsDefined(m.md["leaving"])
    THEN LET e1 == Put(Named(ev, PLUGIN_EVENT.LEAVING), "feed",
                       SentinelFeed(m.md["leaving"], thisFeed))
         IN IF Truthy(m.md["reason"]) THEN Put(e1, "reason", m.md["reason"]) ELSE e1
  ELSE IF IsDefined(m.md["kicked"])
    THEN Put(Named(ev, PLUGIN_EVENT.KICKED), "feed", m.md["kicked"])
  ELSE IF IsDefined(m.md["left"])
    THEN Put(Named(ev, PLUGIN_EVENT.LEAVING), "feed", thisFeed)
  ELSE ev

\* Mutant of the switch: a default case that reports a generic success.
ClassifyDefaultSuccess(m, thisFeed) ==
  LET ev == InitialEvent(m)
      videoroom == m.md["videoroom"]
  IN CASE videoroom = Str("success") -> SuccessEvent(ev, m)
       [] videoroom = Str("joined") -> JoinedEvent(ev, m)
       [] videoroom = Str("attached") -> AttachedEvent(ev, m)
       [] videoroom = Str("slow_link") -> SlowLinkEvent(ev, m, thisFeed)
       [] videoroom = Str("participants") -> ParticipantsEvent(ev, m)
       [] videoroom = Str("created") -> CreatedEvent(ev, m)
       [] videoroom = Str("destroyed") -> DestroyedEvent(ev, m)
       [] videoroom = Str("rtp_forward") -> RtpForwardEvent(ev, m)
       [] videoroom = Str("stop_rtp_forward") -> StopRtpForwardEvent(ev, m)
       [] videoroom = Str("forwarders") -> ForwardersEvent(ev, m)
       [] videoroom = Str("event") -> GenericEvent(ev, m, thisFeed)
       [] OTHER -> Named(ev, PLUGIN_EVENT.SUCCESS)

\* Mutant of the switch: the notifications of an 'event' take the feed
\* from the id of the message.
ClassifyEventByMessageId(m, thisFeed) ==
  LET ev == InitialEvent(m)
      videoroom == m.md["videoroom"]
  IN CASE videoroom = Str("success") -> SuccessEvent(ev, m)
       [] videoroom = Str("joined") -> JoinedEvent(ev, m)
       [] videoroom = Str("attached") -> AttachedEvent(ev, m)
       [] videoroom = Str("slow_link") -> SlowLinkEvent(ev, m, thisFeed)
       [] videoroom = Str("participants") -> ParticipantsEvent(ev, m)
       [] videoroom = Str("created") -> CreatedEvent(ev, m)
       [] videoroom = Str("destroyed") -> DestroyedEvent(ev, m)
       [] videoroom = Str("rtp_forward") -> RtpForwardEvent(ev, m)
       [] videoroom = Str("stop_rtp_forward") -> StopRtpForwardEvent(ev, m)
       [] videoroom = Str("forwarders") -> ForwardersEvent(ev, m)
       [] videoroom = Str("event") -> GenericEvent(ev, m, m.md["id"])
       [] OTHER -> ev

\* switch (videoroom): janode_event when the switch is left.
Classify(m, thisFeed) ==
  LET ev == InitialEvent(m)
      videoroom == m.md["videoroom"]
  IN CASE videoroom = Str("success") -> SuccessEvent(ev, m)
       [] videoroom = Str("joined") -> JoinedEvent(ev, m)
       [] videoroom = Str("attached") -> AttachedEvent(ev, m)
       [] videoroom = Str("slow_link") -> SlowLinkEvent(ev, m, thisFeed)
       [] videoroom = Str("participants") -> ParticipantsEvent(ev, m)
       [] videoroom = Str("created") -> CreatedEvent(ev, m)
       [] videoroom = Str("destroyed") -> DestroyedEvent(ev, m)
       [] videoroom = Str("rtp_forward") -> RtpForwardEvent(ev, m)
       [] videoroom = Str("stop_rtp_forward") -> StopRtpForwardEvent(ev, m)
       [] videoroom = Str("forwarders") -> ForwardersEvent(ev, m)
       [] videoroom = Str("event") -> GenericEvent(ev, m, thisFeed)
       [] OTHER -> ev

\* The messages on which the switch throws a TypeError: a list or nested
\* object that the branch dereferences is absent.
Throws(m) ==
  LET videoroom == m.md["videoroom"]
  IN \/ videoroom = Str("joined") /\ m.publishers.t # "array"
     \/ videoroom = Str("participants") /\ m.participants.t # "array"
     \/ videoroom = Str("rtp_forward") /\ m.rtp_stream.t # "object"
     \/ videoroom = Str("forwarders") /\ m.rtp_forwarders.t # "array"

\* Mutant: 'participants', which also names a room, stores it too.
StoresIdentityOnParticipants(m) ==
  m.md["videoroom"] \in {Str("joined"), Str("attached"), Str("participants")}

\* this.room / this.feed after the switch: stored by 'joined' and 'attached'.
StoresIdentity(m) == m.md["videoroom"] \in {Str("joined"), Str("attached")}

\* Mutant: the room is stored only from a message that bears a
\* transaction id.
RoomAfterWhenCorrelated(m, thisRoom) ==
  IF StoresIdentity(m) /\ IsDefined(m.transaction) THEN m.md["room"] ELSE thisRoom

RoomAfter(m, thisRoom) == IF StoresIdentity(m) THEN m.md["room"] ELSE thisRoom

\* Mutant: a subscriber's 'left' event clears the stored feed.
FeedAfterClearedOnLeft(m, thisFeed) ==
  IF StoresIdentity(m) THEN m.md["id"]
  ELSE IF m.md["videoroom"] = Str("event") /\ IsDefined(m.md["left"]) THEN Null
  ELSE thisFeed

FeedAfter(m, thisFeed) == IF StoresIdentity(m) THEN m.md["id"] ELSE thisFeed

(***************************************************************************)
(* The transaction ledger (the Handle base class and the transport's       *)
(* transaction table, which this file only calls).  Transaction ids are    *)
(* opaque; they are numbered here in the order the endpoint opens them,    *)
(* and OtherTx is the id of a transaction another handle owns.  An entry   *)
(* is unused, open, closed with success or with error (the pending caller  *)
(* not yet resumed), or finished (the caller returned or rejected).        *)
(* caught tells whether the catch handler a negotiation request chains to  *)
(* its send has run.                                                       *)
(***************************************************************************)
MaxTx == 2

TxIds == 1..MaxTx

OtherTx == 0

NoParams ==
  [room |-> Undef, feed |-> Undef, display |-> Undef, jsep |-> Undef,
   restart |-> Undef, update |-> Undef, secret |-> Undef, host |-> Undef,
   audio_port |-> Undef, video_port |-> Undef, data_port |-> Undef]

UnusedTx ==
  [status |-> "unused", op |-> "none", params |-> NoParams,
   reply |-> EmptyEvent, closes |-> 0, caught |-> FALSE]

\* The index of the entry a transaction id names, 0 when it names none.
TxIndex(id) == IF id.t = "number" /\ id.n \in TxIds THEN id.n ELSE 0

\* ownsTransaction(id)
OwnsTransaction(ledger, id) ==
  TxIndex(id) # 0 /\ ledger[TxIndex(id)].status = "open"

\* closeTransactionWithSuccess(id, janus_message): the pending caller gets
\* the message, whose _janode is the event.  Nothing happens unless the
\* endpoint owns the transaction.
CloseTransactionWithSuccess(ledger, id, ev) ==
  IF OwnsTransaction(ledger, id)
    THEN [ledger EXCEPT ![TxIndex(id)].status = "success",
                        ![TxIndex(id)].reply = ev,
                        ![TxIndex(id)].closes = @ + 1]
    ELSE ledger

\* closeTransactionWithError(id, error)
CloseTransactionWithError(ledger, id, ev) ==
  IF OwnsTransaction(ledger, id)
    THEN [ledger EXCEPT ![TxIndex(id)].status = "error",
                        ![TxIndex(id)].reply = ev,
                        ![TxIndex(id)].closes = @ + 1]
    ELSE ledger

(***************************************************************************)
(* What handleMessage does with the ledger and the subscribers.            *)
(***************************************************************************)

\* Mutants of the emission test: every event is emitted; the test is inverted.
EmitAlways(ledger, m) == TRUE

EmitWhenOwned(ledger, m) == OwnsTransaction(ledger, m.transaction)

\* Mutant of the ownership test: it is made after the error branch has
\* closed the transaction.
EmitAfterErrorClose(ledger, m) ==
  ~OwnsTransaction(IF IsErrorEvent(m)
                     THEN CloseTransactionWithError(ledger, m.transaction, ErrorEvent(m))
                     ELSE ledger,
                   m.transaction)

\* const emit = (this.ownsTransaction(transaction) === false)
EmitDecision(ledger, m) == ~OwnsTransaction(ledger, m.transaction)

\* Mutant of the correlation: the reply closes the oldest open transaction,
\* whatever id it bears.
CloseOldestOpen(m) ==
  IF \E i \in TxIds : tx[i].status = "open"
    THEN Num(CHOOSE i \in TxIds : /\ tx[i].status = "open"
                                  /\ \A j \in TxIds : tx[j].status = "open" => i <= j)
    ELSE m.transaction

\* The transaction id handed to the close operations.
CloseTarget(m) == m.transaction

\* Mutant of the close operations: only the error branch closes.
CloseCallsOnErrorOnly(m, ev) == IF IsErrorEvent(m) THEN <<"error">> ELSE <<>>

\* The close operations handleMessage invokes, in order: with error inside
\* the error branch, with success once a name is assigned.
CloseCalls(m, ev) ==
  (IF IsErrorEvent(m) THEN <<"error">> ELSE <<>>)
    \o (IF ev.event # NoEvent THEN <<"success">> ELSE <<>>)

\* The ledger after the close operations of one message.
RECURSIVE ApplyCloses(_, _, _, _)
ApplyCloses(ledger, calls, id, ev) ==
  IF calls = <<>> THEN ledger
  ELSE ApplyCloses(IF Head(calls) = "error"
                     THEN CloseTransactionWithError(ledger, id, ev)
                     ELSE CloseTransactionWithSuccess(ledger, id, ev),
                   Tail(calls), id, ev)

\* Mutant of the emission: the error branch leaves before the emission.
EmitsUnlessError(emit, ev) == ev.event # NoEvent /\ emit /\ ~ev.isError

\* if (emit) this.emit(...), reached only when a name is assigned.
Emits(emit, ev) == ev.event # NoEvent /\ emit

(***************************************************************************)
(* The request facade.  An operation builds a body, sends it with          *)
(* this.message(body, jsep), which opens a transaction, and is resumed     *)
(* when the transaction is closed.  params holds the parameters the model  *)
(* carries: room, feed, display, jsep, restart, update, secret and, for    *)
(* startForward, host and the three ports.                                 *)
(***************************************************************************)
Operations ==
  {"joinPublisher", "joinConfigurePublisher", "configure", "publish",
   "unpublish", "joinSubscriber", "joinListener", "start", "pause", "leave",
   "listParticipants", "kick", "exists", "list", "create", "destroy",
   "allow", "startForward", "stopForward", "listForward"}

\* body.request
RequestName(op) ==
  CASE op \in {"joinPublisher", "joinSubscriber", "joinListener"} -> "join"
    [] op = "joinConfigurePublisher" -> "joinandconfigure"
    [] op = "listParticipants" -> "listparticipants"
    [] op = "allow" -> "allowed"
    [] op = "startForward" -> "rtp_forward"
    [] op = "stopForward" -> "stop_rtp_forward"
    [] op = "listForward" -> "listforwarders"
    [] OTHER -> op

\* The event name an operation accepts as its reply.
ExpectedEvent(op) ==
  CASE op \in {"joinPublisher", "joinConfigurePublisher"} -> PLUGIN_EVENT.PUB_JOINED
    [] op \in {"configure", "publish"} -> PLUGIN_EVENT.CONFIGURED
    [] op = "unpublish" -> PLUGIN_EVENT.UNPUBLISHED
    [] op \in {"joinSubscriber", "joinListener"} -> PLUGIN_EVENT.SUB_JOINED
    [] op = "start" -> PLUGIN_EVENT.STARTED
    [] op = "pause" -> PLUGIN_EVENT.PAUSED
    [] op = "leave" -> PLUGIN_EVENT.LEAVING
    [] op = "listParticipants" -> PLUGIN_EVENT.PARTICIPANTS_LIST
    [] op = "kick" -> PLUGIN_EVENT.SUCCESS
    [] op = "exists" -> PLUGIN_EVENT.EXISTS
    [] op = "list" -> PLUGIN_EVENT.ROOMS_LIST
    [] op = "create" -> PLUGIN_EVENT.CREATED
    [] op = "destroy" -> PLUGIN_EVENT.DESTROYED
    [] op = "allow" -> PLUGIN_EVENT.ALLOWED
    [] op = "startForward" -> PLUGIN_EVENT.RTP_FWD_STARTED
    [] op = "stopForward" -> PLUGIN_EVENT.RTP_FWD_STOPPED
    [] OTHER -> PLUGIN_EVENT.RTP_FWD_LIST

\* The operations that pass a jsep to this.message.
SendsJsep(op) == op \in {"joinConfigurePublisher", "configure", "publish", "start"}

\* The operations that guard the send with the hangup cleanup.
NegotiationOps == {"joinConfigurePublisher", "configure", "publish"}

\* The body of the request, as serialized: Undef is a member that is not
\* sent.  feed = 0 and room = 0 are the defaults of the parameter lists.
BodyFields ==
  {"request", "ptype", "room", "id", "feed", "publisher_id", "display",
   "restart", "update", "secret", "host", "audio_port", "video_port",
   "data_port"}

Default(v, d) == IF v.t = "undefined" THEN d ELSE v

\* Mutant of the guard of an optional member: the type is not tested.
IfSupplied(v, type) == v

IfType(v, type) == IF v.t = type THEN v ELSE Undef

Body(op, p) ==
  LET b0 == [[f \in BodyFields |-> Undef] EXCEPT !["request"] = Str(RequestName(op))]
  IN CASE op \in {"joinPublisher", "joinConfigurePublisher"} ->
            [b0 EXCEPT !["ptype"] = Str("publisher"), !["room"] = p.room,
                       !["id"] = Default(p.feed, Num(0)),
                       !["display"] = IfType(p.display, "string")]
       [] op = "configure" ->
            [b0 EXCEPT !["display"] = IfType(p.display, "string"),
                       !["restart"] = IfType(p.restart, "boolean"),
                       !["update"] = IfType(p.update, "boolean")]
       [] op = "publish" -> [b0 EXCEPT !["display"] = IfType(p.display, "string")]
       [] op \in {"joinSubscriber", "joinListener"} ->
            [b0 EXCEPT !["ptype"] = Str("subscriber"), !["room"] = p.room,
                       !["feed"] = p.feed]
       [] op = "exists" -> [b0 EXCEPT !["room"] = p.room]
       [] op \in {"listParticipants", "destroy", "allow", "listForward"} ->
            [b0 EXCEPT !["room"] = p.room,
                       !["secret"] = IfType(p.secret, "string")]
       [] op = "kick" ->
            [b0 EXCEPT !["room"] = p.room, !["id"] = p.feed,
                       !["secret"] = IfType(p.secret, "string")]
       [] op = "create" ->
            [b0 EXCEPT !["room"] = Default(p.room, Num(0)),
                       !["secret"] = IfType(p.secret, "string")]
       [] op = "startForward" ->
            [b0 EXCEPT !["room"] = p.room, !["publisher_id"] = p.feed,
                       !["host"] = IfType(p.host, "string"),
                       !["audio_port"] = IfType(p.audio_port, "number"),
                       !["video_port"] = IfType(p.video_port, "number"),
                       !["data_port"] = IfType(p.data_port, "number"),
                       !["secret"] = IfType(p.secret, "string")]
       [] op = "stopForward" ->
            [b0 EXCEPT !["room"] = p.room, !["publisher_id"] = p.feed,
                       !["secret"] = IfType(p.secret, "string")]
       [] OTHER -> b0

\* jsep.type === 'offer': an array has no type.
IsOffer(jsep) == jsep.t = "object" /\ jsep.s = "offer"

\* Mutant of the refusal: the comparison of the type is inverted.
RefusesOffer(op, p) ==
  op = "publish" /\ TypeOf(p.jsep) = "object" /\ Truthy(p.jsep) /\ IsOffer(p.jsep)

\* if (typeof jsep === 'object' && jsep && jsep.type !== 'offer'): publish
\* refuses at once an object, or an array, that is not an offer.
RefusesJsep(op, p) ==
  op = "publish" /\ TypeOf(p.jsep) = "object" /\ Truthy(p.jsep) /\ ~IsOffer(p.jsep)

\* Mutants of the test on the reply: any recognized event is accepted; the
\* name alone is tested; kick also accepts the kicked notification.
AcceptsAnyNamed(op, reply) == reply.event # NoEvent

AcceptsByNameOnly(op, reply) == reply.event = ExpectedEvent(op)

AcceptsKickedToo(op, reply) ==
  /\ \/ reply.event = ExpectedEvent(op)
     \/ op = "kick" /\ reply.event = PLUGIN_EVENT.KICKED
  /\ op \in {"configure", "publish"} => reply.data["configured"] = Str("ok")
  /\ op = "start" => reply.data["started"] = Str("ok")
  /\ op = "pause" => reply.data["paused"] = Str("ok")

\* The test on the reply: the expected name and, for configure, publish,
\* start and pause, the 'ok' acknowledgment.
Accepts(op, reply) ==
  /\ reply.event = ExpectedEvent(op)
  /\ op \in {"configure", "publish"} => reply.data["configured"] = Str("ok")
  /\ op = "start" => reply.data["started"] = Str("ok")
  /\ op = "pause" => reply.data["paused"] = Str("ok")

\* The payload returned: the reply's data, with the members the operation
\* adds from its body.
Enrich(op, p, reply) ==
  LET b == Body(op, p)
      d1 == IF op \in {"joinPublisher", "joinConfigurePublisher", "configure", "publish"}
               /\ Truthy(b["display"])
              THEN Put(reply, "display", b["display"]) ELSE reply
      \* typeof body.request === 'boolean': the request name is a string
      d2 == IF op = "configure" /\ b["request"].t = "boolean"
              THEN Put(d1, "restart", b["restart"]) ELSE d1
      d3 == IF op = "configure" /\ b["update"].t = "boolean"
              THEN Put(d2, "update", b["update"]) ELSE d2
  IN IF op = "kick" THEN Put(Put(d3, "room", b["room"]), "feed", b["id"])
     ELSE d3

\* new Error(`unexpected response to ${body.request} request`): the request
\* the error names.
UnexpectedResponseTo(op, p) == Body(op, p)["request"].s

\* The remote codes of the cleanup protocol.
CleanupLow == 429

CleanupHigh == 437

AlreadyPublished == 434

\* lo <= number <= hi; a comparison with NaN is false.
NumberWithin(number, lo, hi) ==
  /\ ~number.nan
  /\ number.n >= lo
  /\ number.n < hi \/ (number.n = hi /\ number.whole)

\* e._code >= lo && e._code <= hi: the code is converted to a number.
CodeWithin(code, lo, hi) == NumberWithin(ToNumber(code), lo, hi)

\* The number is not the integer k; NaN differs from every number.
NumberDiffers(number, k) == number.nan \/ ~number.whole \/ number.n # k

\* e._code != k: undefined and null equal no number; any other value is
\* compared as a number.
CodeDiffers(code, k) ==
  code.t \in {"undefined", "null"} \/ NumberDiffers(ToNumber(code), k)

\* Mutant of the cleanup test: 434 is not excluded.
NeedsHangupWholeRange(op, p, err) ==
  /\ op \in NegotiationOps
  /\ Truthy(p.jsep)
  /\ Truthy(err.data["_code"])
  /\ CodeWithin(err.data["_code"], CleanupLow, CleanupHigh)

\* Mutant of the cleanup test: any error but already-published qualifies,
\* with or without a code.
NeedsHangupUnlessPublished(op, p, err) ==
  /\ op \in NegotiationOps
  /\ Truthy(p.jsep)
  /\ CodeDiffers(err.data["_code"], AlreadyPublished)

\* Mutant of the cleanup test: the jsep is not tested.
NeedsHangupWithoutJsep(op, p, err) ==
  /\ op \in NegotiationOps
  /\ Truthy(err.data["_code"])
  /\ CodeWithin(err.data["_code"], CleanupLow, CleanupHigh)
  /\ CodeDiffers(err.data["_code"], AlreadyPublished)

\* if (jsep && e._code && e._code >= 429 && e._code <= 437 && e._code != 434)
NeedsHangup(op, p, err) ==
  /\ op \in NegotiationOps
  /\ Truthy(p.jsep)
  /\ Truthy(err.data["_code"])
  /\ CodeWithin(err.data["_code"], CleanupLow, CleanupHigh)
  /\ CodeDiffers(err.data["_code"], AlreadyPublished)

NoMessage == [Msg(Undef, Undef) EXCEPT !.plugindata = "absent"]

NothingHandled ==
  [result |-> "none", msg |-> NoMessage, event |-> EmptyEvent, owned |-> FALSE,
   calls |-> <<>>, closed |-> <<>>, emitted |-> FALSE]

NoOutcome ==
  [kind |-> "none", op |-> "none", tx |-> 0, error |-> "none", code |-> Undef,
   request |-> "none", payload |-> EmptyEvent, hangup |-> FALSE]

NothingSent == [op |-> "none", tx |-> 0, body |-> [f \in BodyFields |-> Undef], jsep |-> Undef]

\* The constructor: this.feed = null, this.room = null.
Init ==
  /\ room = Null
  /\ feed = Null
  /\ tx = [i \in TxIds |-> UnusedTx]
  /\ inbox = <<>>
  /\ handled = NothingHandled
  /\ outcome = NoOutcome
  /\ sent = NothingSent
  /\ hangups = 0
  /\ hangup = "none"

\* A caller is waiting to be resumed: its transaction was closed in the
\* current turn of the event loop, and it runs before the next message.
Resumable(i) == tx[i].status \in {"success", "error"}

\* Nothing of the current turn of the event loop is left to observe.
Quiet == handled = NothingHandled /\ outcome = NoOutcome /\ sent = NothingSent

\* The transport hands the next message of the gateway to the endpoint.
Deliver(m) ==
  /\ inbox = <<>>
  /\ Quiet
  /\ inbox' = <<m>>
  /\ UNCHANGED <<room, feed, tx, handled, outcome, sent, hangups, hangup>>

\* The turn of the event loop ends: every caller that could run has run,
\* and what the turn did is no longer observed.
EndTurn ==
  /\ inbox = <<>>
  /\ ~Quiet
  /\ \A i \in TxIds : ~Resumable(i)
  /\ handled' = NothingHandled
  /\ outcome' = NoOutcome
  /\ sent' = NothingSent
  /\ hangup' = IF hangup = "pending" THEN "pending" ELSE "none"
  /\ UNCHANGED <<room, feed, tx, inbox, hangups>>

\* handleMessage(janus_message)
HandleMessage ==
  /\ inbox # <<>>
  /\ \A i \in TxIds : ~Resumable(i)
  /\ LET m == Head(inbox)
         emit == EmitDecision(tx, m)
         ev == Classify(m, feed)
         calls == CloseCalls(m, ev)
         after == ApplyCloses(tx, calls, CloseTarget(m), ev)
     IN IF ~IsPluginMessage(m)
          THEN /\ handled' = [NothingHandled EXCEPT !.result = "null", !.msg = m]
               /\ UNCHANGED <<room, feed, tx>>
        ELSE IF Throws(m)
          THEN /\ handled' = [NothingHandled EXCEPT !.result = "throw", !.msg = m,
                                                    !.owned = OwnsTransaction(tx, m.transaction)]
               /\ room' = RoomAfter(m, room)
               /\ feed' = FeedAfter(m, feed)
               /\ UNCHANGED tx
        ELSE /\ handled' =
                  [result |-> IF ev.event # NoEvent THEN "event" ELSE "null",
                   msg |-> m, event |-> ev,
                   owned |-> OwnsTransaction(tx, m.transaction), calls |-> calls,
                   closed |-> [k \in 1..Len(calls) |->
                                 ApplyCloses(tx, SubSeq(calls, 1, k), CloseTarget(m), ev)
                                   # ApplyCloses(tx, SubSeq(calls, 1, k - 1), CloseTarget(m), ev)],
                   emitted |-> Emits(emit, ev)]
             /\ room' = RoomAfter(m, room)
             /\ feed' = FeedAfter(m, feed)
             /\ tx' = after
  /\ inbox' = Tail(inbox)
  /\ UNCHANGED <<outcome, sent, hangups, hangup>>

\* A facade operation up to its await: the body is built and sent, which
\* opens the next transaction; publish refuses a jsep that is not an offer
\* before anything is sent.
Request(op, p) ==
  /\ inbox = <<>>
  /\ Quiet
  /\ IF RefusesJsep(op, p)
       THEN /\ outcome' = [NoOutcome EXCEPT !.kind = "rejected", !.op = op,
                                            !.error = "input"]
            /\ UNCHANGED <<tx, sent>>
       ELSE /\ \E i \in TxIds :
                 /\ tx[i].status = "unused"
                 /\ \A j \in TxIds : j < i => tx[j].status # "unused"
                 /\ tx' = [tx EXCEPT ![i] = [UnusedTx EXCEPT !.status = "open",
                                                             !.op = op, !.params = p]]
                 /\ sent' = [op |-> op, tx |-> i, body |-> Body(op, p),
                             jsep |-> IF SendsJsep(op) THEN p.jsep ELSE Undef]
            /\ UNCHANGED outcome
  /\ UNCHANGED <<room, feed, inbox, handled, hangups, hangup>>

\* The catch handler chained to the send of a negotiation request, run when
\* the transaction was closed with error: it issues the hangup when the
\* error qualifies, without awaiting it, and throws the error again.
Catch(i) ==
  /\ tx[i].status = "error"
  /\ tx[i].op \in NegotiationOps
  /\ ~tx[i].caught
  /\ LET cleanup == NeedsHangup(tx[i].op, tx[i].params, tx[i].reply)
     IN /\ hangups' = IF cleanup THEN hangups + 1 ELSE hangups
        /\ hangup' = IF cleanup THEN "pending" ELSE hangup
  /\ tx' = [tx EXCEPT ![i].caught = TRUE]
  /\ UNCHANGED <<room, feed, inbox, handled, outcome, sent>>

\* Mutant of the chaining: the caller is resumed without waiting for the
\* catch handler.
MayResumeUncaught(entry) == TRUE

\* Mutant of the await: the handler awaits the hangup before it throws.
MayResumeHangupSettled(entry) ==
  (entry.status = "error" /\ entry.op \in NegotiationOps) =>
    (entry.caught /\ hangup # "pending")

\* The caller of a negotiation request whose send failed is resumed after
\* the catch handler has run.
MayResume(entry) ==
  (entry.status = "error" /\ entry.op \in NegotiationOps) => entry.caught

\* A facade operation from its await on: the reply is checked and the
\* payload returned, or the operation rejects, with the error of the reply
\* or with a contract violation.
Resume(i) ==
  /\ Resumable(i)
  /\ MayResume(tx[i])
  /\ LET op == tx[i].op
         p == tx[i].params
         reply == tx[i].reply
     IN IF tx[i].status = "error"
          THEN /\ outcome' = [kind |-> "rejected", op |-> op, tx |-> i,
                              error |-> "remote", code |-> reply.data["_code"],
                              request |-> "none",
                              payload |-> reply,
                              hangup |-> tx[i].caught /\ NeedsHangup(op, p, reply)]
               /\ tx' = [tx EXCEPT ![i] = [UnusedTx EXCEPT !.status = "rejected", !.closes = tx[i].closes]]
        ELSE IF Accepts(op, reply)
          THEN /\ outcome' = [kind |-> "returned", op |-> op, tx |-> i,
                              error |-> "none", code |-> Undef, request |-> "none",
                              payload |-> Enrich(op, p, reply), hangup |-> FALSE]
               /\ tx' = [tx EXCEPT ![i] = [UnusedTx EXCEPT !.status = "returned", !.closes = tx[i].closes]]
        ELSE /\ outcome' = [kind |-> "rejected", op |-> op, tx |-> i,
                            error |-> "contract", code |-> Undef,
                            request |-> UnexpectedResponseTo(op, p),
                            payload |-> EmptyEvent, hangup |-> FALSE]
             /\ tx' = [tx EXCEPT ![i] = [UnusedTx EXCEPT !.status = "rejected", !.closes = tx[i].closes]]
  /\ UNCHANGED <<room, feed, inbox, handled, sent, hangups, hangup>>

\* The hangup request settles; this.hangup().catch(() => { }) swallows its
\* failure, and nothing waits for it.
HangupSettles(result) ==
  /\ hangup = "pending"
  /\ hangup' = result
  /\ UNCHANGED <<room, feed, tx, inbox, handled, outcome, sent, hangups>>

(***************************************************************************)
(* The messages and the requests of the specification Spec: one message    *)
(* of every kind the classifier tells apart, each bearing no transaction   *)
(* id, the id of a transaction of another handle, or an id the endpoint    *)
(* has opened or may open.                                                 *)
(***************************************************************************)
Alice == Str("alice")

Bob == Str("bob")

Room7 == Num(7)

Room8 == Num(8)

Feed42 == Num(42)

Feed99 == Num(99)

Offer == Obj("offer")

Answer == Obj("answer")

OnePublisher == List(<<[id |-> Feed99, display |-> Bob]>>)

VideoStream ==
  [NoRtpStream EXCEPT !.t = "object", !.host = Str("10.0.0.1"),
                      !.video = Num(5004), !.video_stream_id = Num(1)]

VideoForwarder ==
  [ip |-> Str("10.0.0.1"), port |-> Num(5004), remote_rtcp_port |-> Undef,
   audio_stream_id |-> Undef, video_stream_id |-> Num(1), data_stream_id |-> Undef]

\* The data blocks, with no transaction id yet.
EventKinds ==
  LET e == With(Msg(Str("event"), Undef), "room", Room7)
  IN {With(With(e, "error", Str("room full")), "error_code", Num(432)),
      With(With(e, "error", Str("already published")), "error_code", Num(434)),
      [e EXCEPT !.joining = Joining(Feed99, Bob)],
      [e EXCEPT !.publishers = OnePublisher],
      [With(e, "configured", Str("ok")) EXCEPT !.jsep = Answer],
      With(e, "configured", Str("failed")),
      With(With(e, "display", Bob), "id", Feed99),
      With(e, "started", Str("ok")),
      With(e, "started", Str("failed")),
      With(e, "paused", Str("ok")),
      With(e, "paused", Bool(TRUE)),
      With(e, "unpublished", Str("ok")),
      With(e, "unpublished", Feed99),
      With(With(e, "leaving", Str("ok")), "reason", Str("kicked")),
      With(e, "kicked", Feed99),
      With(e, "left", Str("ok"))}

ReplyKinds ==
  LET r(v) == With(Msg(Str(v), Undef), "room", Room7)
  IN {Msg(Str("success"), Undef),
      With(r("success"), "exists", Bool(FALSE)),
      With(Msg(Str("success"), Undef), "list", Obj("rooms")),
      With(r("success"), "allowed", Obj("tokens")),
      [With(r("joined"), "id", Feed42) EXCEPT !.publishers = OnePublisher],
      With(With([Msg(Str("attached"), Undef) EXCEPT !.jsep = Offer],
                "room", Room8), "id", Feed99),
      With(With(Msg(Str("slow_link"), Undef), "current-bitrate", Num(64000)),
           "feed", Num(1234)),
      [r("participants") EXCEPT !.participants =
         List(<<[id |-> Feed99, display |-> Bob, publisher |-> Bool(TRUE)]>>)],
      With(r("created"), "permanent", Bool(FALSE)),
      r("destroyed"),
      [With(r("rtp_forward"), "publisher_id", Feed99) EXCEPT !.rtp_stream = VideoStream],
      With(With(r("stop_rtp_forward"), "publisher_id", Feed99), "stream_id", Num(1)),
      [r("forwarders") EXCEPT !.rtp_forwarders =
         List(<<[publisher_id |-> Feed99, rtp_forwarder |-> <<VideoForwarder>>]>>)]}

\* Messages that are not the plugin's, that no branch recognizes, that
\* lack what a branch dereferences, or that lack the identity they confirm.
OddKinds ==
  {NoMessage,
   [Msg(Str("event"), Undef) EXCEPT !.plugindata = "nodata"],
   Msg(Undef, Undef),
   With(Msg(Str("talking"), Undef), "id", Feed99),
   With(Msg(Str("event"), Undef), "room", Room7),
   With(With(Msg(Str("event"), Undef), "error_code", Num(432)), "error", Str("")),
   With(With(Msg(Str("joined"), Undef), "room", Room7), "id", Feed42),
   [Msg(Str("joined"), Undef) EXCEPT !.publishers = List(<<>>)],
   Msg(Str("attached"), Undef)}

Kinds == EventKinds \cup ReplyKinds \cup OddKinds

\* The transaction ids a message may bear.
Bearing == {Undef, Num(OtherTx)} \cup {Num(i) : i \in TxIds}

Messages == {[k EXCEPT !.transaction = t] : k \in Kinds, t \in Bearing}

\* The facade calls of Spec.
Calls ==
  {[op |-> "joinPublisher", p |-> [NoParams EXCEPT !.room = Room7, !.display = Alice]],
   [op |-> "configure", p |-> [NoParams EXCEPT !.jsep = Offer, !.update = Bool(TRUE)]],
   [op |-> "publish", p |-> [NoParams EXCEPT !.jsep = Answer]],
   [op |-> "leave", p |-> NoParams]}

\* The facade calls of SpecFacade: every operation, the negotiation requests
\* with and without an offer.
AllCalls ==
  {[op |-> o, p |-> [NoParams EXCEPT !.room = Room7, !.feed = Feed99]] :
     o \in Operations \ NegotiationOps}
  \cup {[op |-> o, p |-> [NoParams EXCEPT !.room = Room7, !.display = Alice,
                                         !.jsep = j]] :
          o \in NegotiationOps, j \in {Undef, Offer}}
  \cup {[op |-> "publish", p |-> [NoParams EXCEPT !.jsep = j]] :
          j \in {Answer, Arr("")}}

\* No operation of the endpoint is waiting for its reply.
NoneOpen == \A i \in TxIds : tx[i].status # "open"

Next ==
  \/ \E m \in Messages : Deliver(m)
  \/ HandleMessage
  \/ \E c \in Calls : Request(c.op, c.p)
  \/ \E i \in TxIds : Catch(i)
  \/ \E i \in TxIds : Resume(i)
  \/ \E r \in {"ok", "failed"} : HangupSettles(r)
  \/ EndTurn

Spec == Init /\ [][Next]_vars

\* An endpoint whose join is being confirmed, and the messages that follow.
InitJoined ==
  /\ room = Null
  /\ feed = Null
  /\ tx = [i \in TxIds |-> UnusedTx]
  /\ inbox = <<[With(With(Msg(Str("joined"), Undef), "room", Room7), "id", Feed42)
                  EXCEPT !.publishers = OnePublisher]>>
  /\ handled = NothingHandled
  /\ outcome = NoOutcome
  /\ sent = NothingSent
  /\ hangups = 0
  /\ hangup = "none"

NextJoined ==
  \/ \E m \in Kinds : Deliver(m)
  \/ HandleMessage
  \/ EndTurn

SpecJoined == InitJoined /\ [][NextJoined]_vars

(***************************************************************************)
(* The classifier alone: one message, drawn from a set that holds every    *)
(* combination of the fields an 'event' is told apart by, present with a   *)
(* value the gateway sends or, for error, present and empty; the values an *)
(* unpublished or leaving field may take; and 'joined' messages with and   *)
(* without room and id and with every publishers list up to                *)
(* MaxPublishers entries.  The endpoint has joined or has not.             *)
(***************************************************************************)
MaxPublishers == 2

EventFieldOrder ==
  <<"error", "joining", "publishers", "configured", "display", "started",
    "paused", "unpublished", "leaving", "kicked", "left">>

EventFieldNames == {EventFieldOrder[k] : k \in 1..Len(EventFieldOrder)}

\* The value a field of an 'event' normally carries.
UsualValue(f) ==
  CASE f = "error" -> Str("room full")
    [] f = "display" -> Bob
    [] f = "kicked" -> Feed99
    [] OTHER -> Str("ok")

\* The 'event' message that carries exactly the fields of S, its own id
\* being Feed99.
EventWith(S, error) ==
  LET base == With(With(Msg(Str("event"), Undef), "room", Room7), "id", Feed99)
      scalars == [base EXCEPT !.md = [f \in MsgFields |->
                    IF f = "error" /\ f \in S THEN error
                    ELSE IF f = "error_code" /\ "error" \in S THEN Num(432)
                    ELSE IF f \in S THEN UsualValue(f)
                    ELSE base.md[f]]]
  IN [scalars EXCEPT
        !.joining = IF "joining" \in S THEN Joining(Feed42, Alice) ELSE NoJoining,
        !.publishers = IF "publishers" \in S THEN OnePublisher ELSE NoList]

EventCombinations ==
  {EventWith(S, Str("room full")) : S \in SUBSET EventFieldNames}
  \cup {EventWith(S \cup {"error"}, Str("")) : S \in SUBSET EventFieldNames}

SentinelValues ==
  {Str("ok"), Str("OK"), Str("okay"), Str(""), Feed99, Num(0), Null, Bool(TRUE)}

SentinelMessages ==
  {With(EventWith(S, Undef), f, v) :
     S \in SUBSET {"kicked", "left"}, f \in {"unpublished", "leaving"},
     v \in SentinelValues}

PublisherEntries ==
  {[id |-> Feed99, display |-> Bob], [id |-> Feed42, display |-> Undef]}

PublisherLists ==
  UNION {[1..n -> PublisherEntries] : n \in 0..MaxPublishers}

JoinedMessages ==
  {[With(With(Msg(Str("joined"), Undef), "room", r), "id", f)
      EXCEPT !.publishers = List(l)] :
     r \in {Room7, Room8, Undef}, f \in {Feed42, Feed99, Str("ok"), Undef},
     l \in PublisherLists}

\* 'success' messages: each of exists, list and allowed absent, present
\* with a usual value, or present with a falsy one.
SuccessMessages ==
  {With(With(With(With(Msg(Str("success"), Undef), "room", r),
                  "exists", e), "list", l), "allowed", a) :
     r \in {Undef, Room7},
     e \in {Undef, Bool(TRUE), Bool(FALSE)},
     l \in {Undef, Obj("rooms"), Null},
     a \in {Undef, Obj("tokens"), Str("")}}

\* What the gateway reports for one media type of a forwarder: nothing,
\* zero, or a value.
Reported(v) == {Undef, Num(0), v}

\* 'rtp_forward' messages: each media type's port absent, zero or set, the
\* rtcp port and the stream id being reported with the port; and one
\* without rtp_stream.
RtpStreams ==
  {[t |-> "object", host |-> Str("10.0.0.1"),
    audio |-> a, audio_rtcp |-> IF a = Num(5002) THEN Num(5003) ELSE Undef,
    audio_stream_id |-> IF a = Num(5002) THEN Num(1) ELSE Undef,
    video |-> v, video_rtcp |-> Undef,
    video_stream_id |-> IF v = Num(5004) THEN Num(2) ELSE Undef,
    data |-> d, data_stream_id |-> IF d = Num(5006) THEN Num(3) ELSE Undef] :
     a \in Reported(Num(5002)), v \in Reported(Num(5004)), d \in Reported(Num(5006))}

RtpForwardMessages ==
  {[With(With(Msg(Str("rtp_forward"), Undef), "room", Room7), "publisher_id", Feed99)
      EXCEPT !.rtp_stream = rs] : rs \in RtpStreams \cup {NoRtpStream}}

\* The entries of a 'forwarders' snapshot: each media type's stream id
\* absent, zero or set.
ListedForwarders ==
  {[ip |-> Str("10.0.0.1"), port |-> Num(5004), remote_rtcp_port |-> r,
    audio_stream_id |-> a, video_stream_id |-> v, data_stream_id |-> d] :
     r \in {Undef, Num(5005)},
     a \in Reported(Num(1)), v \in Reported(Num(2)), d \in Reported(Num(3))}

\* 'forwarders' messages: one publisher with one forwarder of every kind,
\* every list of up to MaxPublishers publishers with none, one or two
\* forwarders, and one without rtp_forwarders.
SomeForwarderLists ==
  {<<>>, <<VideoForwarder>>,
   <<[VideoForwarder EXCEPT !.audio_stream_id = Num(1), !.video_stream_id = Num(0)],
     [VideoForwarder EXCEPT !.data_stream_id = Num(3), !.remote_rtcp_port = Num(5005)]>>}

SnapshotLists ==
  {<<[publisher_id |-> Feed99, rtp_forwarder |-> <<f>>]>> : f \in ListedForwarders}
  \cup UNION {[1..n -> {[publisher_id |-> id, rtp_forwarder |-> l] :
                          id \in {Feed42, Feed99}, l \in SomeForwarderLists}] :
               n \in 0..MaxPublishers}

ForwardersMessages ==
  {[With(Msg(Str("forwarders"), Undef), "room", Room7)
      EXCEPT !.rtp_forwarders = List(l)] : l \in SnapshotLists}
  \cup {With(Msg(Str("forwarders"), Undef), "room", Room7)}

ClassifierInputs ==
  EventCombinations \cup SentinelMessages \cup JoinedMessages \cup SuccessMessages
  \cup RtpForwardMessages \cup ForwardersMessages

InitClassify ==
  /\ \E id \in {<<Null, Null>>, <<Room7, Feed42>>} : room = id[1] /\ feed = id[2]
  /\ tx = [i \in TxIds |-> UnusedTx]
  /\ inbox \in {<<m>> : m \in ClassifierInputs}
  /\ handled = NothingHandled
  /\ outcome = NoOutcome
  /\ sent = NothingSent
  /\ hangups = 0
  /\ hangup = "none"

SpecClassify == InitClassify /\ [][HandleMessage]_vars

\* Every facade operation, one at a time.
NextFacade ==
  \/ \E m \in Messages : Deliver(m)
  \/ HandleMessage
  \/ \E c \in AllCalls : NoneOpen /\ Request(c.op, c.p)
  \/ \E i \in TxIds : Catch(i)
  \/ \E i \in TxIds : Resume(i)
  \/ \E r \in {"ok", "failed"} : HangupSettles(r)
  \/ EndTurn

SpecFacade == Init /\ [][NextFacade]_vars

(***************************************************************************)
(* The requests alone: every operation called once, each parameter the     *)
(* model carries left out, supplied, or supplied with a value of another   *)
(* type.                                                                   *)
(***************************************************************************)
RequestInputs ==
  {[op |-> o,
    p |-> [NoParams EXCEPT !.room = r, !.feed = f, !.display = d, !.secret = s,
                           !.restart = rs, !.update = u, !.video_port = v]] :
     o \in Operations, r \in {Undef, Room7}, f \in {Undef, Feed99},
     d \in {Undef, Alice, Num(5)}, s \in {Undef, Str("s3cret"), Num(1)},
     rs \in {Undef, Bool(TRUE), Str("yes")}, u \in {Undef, Bool(FALSE)},
     v \in {Undef, Num(5004), Str("5004")}}

NextRequest ==
  \/ \E c \in RequestInputs : NoneOpen /\ Request(c.op, c.p)
  \/ EndTurn

SpecRequest == Init /\ [][NextRequest]_vars

(***************************************************************************)
(* The cleanup protocol: the negotiation requests, with and without an     *)
(* offer, and joinPublisher, answered with an error of every code around   *)
(* the cleanup range, number, text or array as the gateway sends it, with  *)
(* an error without code, or with their reply.                             *)
(***************************************************************************)
RemoteCodes ==
  {Num(c) : c \in 427..438}
  \cup {Str(c) : c \in {"428", "429", "432", "434", "437", "438", "busy",
                         "+432", "432.0", "\t434", "+438", " 432",
                         "0x1B0", "\\u00a0432", "\\u00e9432",
                         "432.5", "0x1B2"}}
  \cup {Arr("432"), Arr("434")}
  \cup {Undef}

CleanupKinds ==
  {With(With(With(Msg(Str("event"), Undef), "room", Room7),
             "error", Str("refused")), "error_code", c) : c \in RemoteCodes}
  \cup {[With(With(Msg(Str("event"), Undef), "room", Room7), "configured", Str("ok"))
           EXCEPT !.jsep = Answer],
        [With(With(Msg(Str("joined"), Undef), "room", Room7), "id", Feed42)
           EXCEPT !.publishers = OnePublisher]}

CleanupMessages ==
  {[k EXCEPT !.transaction = Num(i)] : k \in CleanupKinds, i \in TxIds}

CleanupCalls ==
  {[op |-> o, p |-> [NoParams EXCEPT !.room = Room7, !.jsep = j]] :
     o \in NegotiationOps, j \in {Undef, Offer}}
  \cup {[op |-> "joinPublisher", p |-> [NoParams EXCEPT !.room = Room7]]}

NextCleanup ==
  \/ \E m \in CleanupMessages : Deliver(m)
  \/ HandleMessage
  \/ \E c \in CleanupCalls : NoneOpen /\ Request(c.op, c.p)
  \/ \E i \in TxIds : Catch(i)
  \/ \E i \in TxIds : Resume(i)
  \/ \E r \in {"ok", "failed"} : HangupSettles(r)
  \/ EndTurn

SpecCleanup == Init /\ [][NextCleanup]_vars

(***************************************************************************)
(* configure alone: called with and without a display, a restart flag and  *)
(* an update flag, and answered with the configured acknowledgment.        *)
(***************************************************************************)
ConfigureCalls ==
  {[op |-> "configure",
    p |-> [NoParams EXCEPT !.display = d, !.restart = rs, !.update = u]] :
     d \in {Undef, Alice, Str("")}, rs \in {Undef, Bool(TRUE), Bool(FALSE)},
     u \in {Undef, Bool(TRUE), Bool(FALSE)}}

ConfigureMessages ==
  {[With(With(Msg(Str("event"), Undef), "room", Room7), "configured", v)
      EXCEPT !.transaction = Num(i)] : v \in {Str("ok"), Str("failed")}, i \in TxIds}

NextConfigure ==
  \/ \E m \in ConfigureMessages : Deliver(m)
  \/ HandleMessage
  \/ \E c \in ConfigureCalls : NoneOpen /\ Request(c.op, c.p)
  \/ \E i \in TxIds : Resume(i)
  \/ EndTurn

SpecConfigure == Init /\ [][NextConfigure]_vars

(***************************************************************************)
(* Forwarding: a caller that starts a video forwarder and then lists the   *)
(* forwarders of the room.  The gateway describes one video-only forwarder *)
(* in two shapes: the rtp_stream of its 'rtp_forward' reply and an entry   *)
(* of its 'forwarders' snapshot.                                           *)
(***************************************************************************)
GatewayForwarders ==
  [host : {Str("10.0.0.1")}, port : {Num(5004), Num(6004)},
   rtcp : {Undef, Num(5005)}, stream : {Num(1), Num(2)}]

RtpStreamOf(fw) ==
  [NoRtpStream EXCEPT !.t = "object", !.host = fw.host, !.video = fw.port,
                      !.video_rtcp = fw.rtcp, !.video_stream_id = fw.stream]

SnapshotEntryOf(fw) ==
  [ip |-> fw.host, port |-> fw.port, remote_rtcp_port |-> fw.rtcp,
   audio_stream_id |-> Undef, video_stream_id |-> fw.stream, data_stream_id |-> Undef]

ForwardKinds ==
  {[With(With(Msg(Str("rtp_forward"), Undef), "room", Room7), "publisher_id", Feed99)
      EXCEPT !.rtp_stream = RtpStreamOf(fw)] : fw \in GatewayForwarders}
  \cup {[With(Msg(Str("forwarders"), Undef), "room", Room7) EXCEPT !.rtp_forwarders =
            List(<<[publisher_id |-> Feed42, rtp_forwarder |-> <<>>],
                   [publisher_id |-> Feed99, rtp_forwarder |-> <<SnapshotEntryOf(fw)>>]>>)] :
          fw \in GatewayForwarders}
  \cup {With(Msg(Str("success"), Undef), "room", Room7)}

ForwardMessages ==
  {[k EXCEPT !.transaction = Num(i)] : k \in ForwardKinds, i \in TxIds}

StartVideoForward ==
  [op |-> "startForward",
   p |-> [NoParams EXCEPT !.room = Room7, !.feed = Feed99, !.host = Str("10.0.0.1"),
                          !.video_port = Num(5004)]]

ListRoomForwarders == [op |-> "listForward", p |-> [NoParams EXCEPT !.room = Room7]]

\* The caller: startForward first, listForward once startForward returned.
ForwardCalls ==
  \/ /\ \A i \in TxIds : tx[i].status = "unused"
     /\ Request(StartVideoForward.op, StartVideoForward.p)
  \/ /\ NoneOpen
     /\ tx[1].status = "returned"
     /\ Request(ListRoomForwarders.op, ListRoomForwarders.p)

NextForward ==
  \/ \E m \in ForwardMessages : Deliver(m)
  \/ HandleMessage
  \/ ForwardCalls
  \/ \E i \in TxIds : Resume(i)
  \/ EndTurn

SpecForward == Init /\ [][NextForward]_vars

(***************************************************************************)
(* Termination: joinPublisher and configure with an offer, possibly open   *)
(* together, and a gateway whose messages bear the ids of the endpoint's   *)
(* transactions.  Some of them the classifier recognizes (the replies, a   *)
(* reply of another operation, an error that qualifies for cleanup), some  *)
(* it does not: an unknown discriminant, an 'event' with no notification,  *)
(* a 'joined' without publishers, on which handleMessage throws.           *)
(* The event loop runs what can run (weak fairness of handleMessage, of    *)
(* the catch handlers, of the resumptions and of the end of the turn); the *)
(* gateway answers every open transaction with a recognized message if it  *)
(* can again and again (strong fairness of Reply).  Nothing is assumed of *)
(* the hangup request.                                                     *)
(***************************************************************************)
LiveCalls ==
  {[op |-> "joinPublisher", p |-> [NoParams EXCEPT !.room = Room7]],
   [op |-> "configure", p |-> [NoParams EXCEPT !.jsep = Offer]]}

RecognizedKinds ==
  {[With(With(Msg(Str("joined"), Undef), "room", Room7), "id", Feed42)
      EXCEPT !.publishers = OnePublisher],
   [With(With(Msg(Str("event"), Undef), "room", Room7), "configured", Str("ok"))
      EXCEPT !.jsep = Answer],
   With(With(With(Msg(Str("event"), Undef), "room", Room7),
             "error", Str("room full")), "error_code", Num(432))}

UnrecognizedKinds ==
  {With(Msg(Str("talking"), Undef), "id", Feed99),
   With(Msg(Str("event"), Undef), "room", Room7),
   With(With(Msg(Str("joined"), Undef), "room", Room7), "id", Feed42)}

\* The gateway answers the open transaction i with a message the
\* classifier recognizes.
Reply(i) ==
  /\ tx[i].status = "open"
  /\ \E k \in RecognizedKinds : Deliver([k EXCEPT !.transaction = Num(i)])

\* The gateway sends, with the id of transaction i, a message the
\* classifier does not recognize.
Babble(i) ==
  \E k \in UnrecognizedKinds : Deliver([k EXCEPT !.transaction = Num(i)])

NextLive ==
  \/ \E i \in TxIds : Reply(i)
  \/ \E i \in TxIds : Babble(i)
  \/ HandleMessage
  \/ \E c \in LiveCalls : Request(c.op, c.p)
  \/ \E i \in TxIds : Catch(i)
  \/ \E i \in TxIds : Resume(i)
  \/ \E r \in {"ok", "failed"} : HangupSettles(r)
  \/ EndTurn

Fairness ==
  /\ WF_vars(HandleMessage)
  /\ WF_vars(EndTurn)
  /\ \A i \in TxIds : /\ WF_vars(Catch(i))
                       /\ WF_vars(Resume(i))
                       /\ SF_vars(Reply(i))

SpecLive == Init /\ [][NextLive]_vars /\ Fairness

(***************************************************************************)
(* Properties.                                                             *)
(***************************************************************************)

\* The step is a handleMessage call (the only step that takes the message
\* out of the inbox).
HandleStep == inbox # <<>> /\ inbox' = <<>>

\* Some close operation of the last handleMessage call closed a transaction.
Resolved == \E k \in 1..Len(handled.closed) : handled.closed[k]

\* C1: for every message that handleMessage classifies, exactly one of the
\* two happens: the transaction the message names is resolved, which is the
\* case when the endpoint owned it, or the event is emitted, which is the
\* case when it did not; never both and never neither.
C1_PublishOrResolve ==
  handled.result = "event" =>
    /\ Resolved # handled.emitted
    /\ Resolved <=> handled.owned
    /\ handled.emitted <=> ~handled.owned
    /\ Resolved => /\ TxIndex(handled.msg.transaction) # 0
                   /\ tx[TxIndex(handled.msg.transaction)].closes = 1

\* An error message for an owned transaction: resolved, not emitted.
C1_Witness ==
  /\ handled.result = "event"
  /\ handled.event.isError
  /\ handled.owned
  /\ Resolved
  /\ ~handled.emitted

\* A transaction that has been resolved, its caller resumed or not.
IsResolved(status) == status \in {"success", "error", "returned", "rejected"}

\* C2: every transaction is resolved at most once, with success or with
\* error and never with both, and a later message bearing the id of a
\* resolved transaction resolves nothing again: it is treated as not owned
\* and its event is emitted.
C2_SingleResolution ==
  [][\A i \in TxIds :
       /\ tx'[i].closes <= 1
       /\ IsResolved(tx[i].status) =>
            /\ tx'[i].closes = tx[i].closes
            /\ IsResolved(tx'[i].status)
            /\ tx[i].status = "error" => tx'[i].status \in {"error", "rejected"}
            /\ tx[i].status = "success" => tx'[i].status # "error"
       /\ (HandleStep /\ IsResolved(tx[i].status)
             /\ Head(inbox).transaction = Num(i)) =>
            /\ tx' = tx
            /\ ~handled'.owned
            /\ \A k \in 1..Len(handled'.closed) : ~handled'.closed[k]
            /\ IsPluginMessage(Head(inbox)) /\ ~Throws(Head(inbox))
                 /\ Classify(Head(inbox), feed).event # NoEvent
                 => handled'.emitted]_vars

\* A classified message bearing the id of a transaction whose caller has
\* already returned: nothing is resolved, the event is emitted.
C2_Witness ==
  /\ handled.result = "event"
  /\ TxIndex(handled.msg.transaction) # 0
  /\ ~handled.owned
  /\ tx[TxIndex(handled.msg.transaction)].status \in {"returned", "rejected"}
  /\ tx[TxIndex(handled.msg.transaction)].closes = 1
  /\ handled.emitted

\* C3: with several transactions open, a classified reply bearing the id t
\* resolves the operation that opened t and no other: every other
\* transaction is left as it was, whatever the order of the replies.
C3_CorrelationById ==
  [][HandleStep =>
       /\ \A i \in TxIds : tx'[i] # tx[i] => Head(inbox).transaction = Num(i)
       /\ \A i \in TxIds :
            (/\ tx[i].status = "open"
             /\ Head(inbox).transaction = Num(i)
             /\ handled'.result = "event") =>
              /\ tx'[i].status \in {"success", "error"}
              /\ tx'[i].op = tx[i].op
              /\ tx'[i].reply = handled'.event
              /\ \A j \in TxIds \ {i} : tx'[j] = tx[j]]_vars

\* The second request is answered first: its transaction is resolved while
\* the first one is still open.
C3_Witness ==
  /\ tx[1].status = "open"
  /\ tx[2].status = "success"
  /\ handled.result = "event"
  /\ handled.msg.transaction = Num(2)

\* The fields an 'event' message is told apart by.
NotificationFields ==
  {"error", "configured", "display", "started", "paused", "unpublished",
   "leaving", "kicked", "left"}

\* No plugin data, no discriminant, a discriminant no branch recognizes, or
\* an 'event' with none of the notification fields.
Unrecognized(m) ==
  \/ m.plugindata # "data"
  \/ ~IsDefined(m.md["videoroom"])
  \/ m.md["videoroom"] \notin
       {Str(v) : v \in {"success", "joined", "attached", "slow_link",
                        "participants", "created", "destroyed", "rtp_forward",
                        "stop_rtp_forward", "forwarders", "event"}}
  \/ /\ m.md["videoroom"] = Str("event")
     /\ \A f \in NotificationFields : ~IsDefined(m.md[f])
     /\ m.joining.t = "undefined"
     /\ m.publishers.t = "undefined"

\* C4: an unrecognized message makes handleMessage return null, leaves room
\* and feed unchanged, resolves no transaction and emits no event.
C4_UnhandledIgnored ==
  [][(HandleStep /\ Unrecognized(Head(inbox))) =>
       /\ handled'.result = "null"
       /\ room' = room
       /\ feed' = feed
       /\ tx' = tx
       /\ handled'.calls = <<>>
       /\ ~handled'.emitted]_vars

\* An unrecognized discriminant bearing the id of an open transaction, on
\* an endpoint that has joined: returned null, the transaction still open.
C4_Witness ==
  /\ handled.result = "null"
  /\ handled.msg.md["videoroom"] = Str("talking")
  /\ handled.owned
  /\ TxIndex(handled.msg.transaction) # 0
  /\ tx[TxIndex(handled.msg.transaction)].status = "open"
  /\ room = Room7

\* Unset: the null of the constructor, or undefined.
IsSet(v) == v.t \notin {"null", "undefined"}

\* C6: room and feed are changed only by handleMessage while it processes a
\* 'joined' or 'attached' message: every other message kind and every
\* facade operation, returning or rejecting, leaves both unchanged.
C6_IdentityFrame ==
  [][(room' # room \/ feed' # feed) =>
       /\ HandleStep
       /\ IsPluginMessage(Head(inbox))
       /\ Head(inbox).md["videoroom"] \in {Str("joined"), Str("attached")}]_vars

\* A facade operation has rejected on an endpoint whose room and feed an
\* earlier 'attached' message had set: they are still those.
C6_Witness ==
  /\ outcome.kind = "rejected"
  /\ outcome.error = "remote"
  /\ room = Room8
  /\ feed = Feed99

\* The last message handled was one of the plugin with this discriminant.
Handled(videoroom) ==
  /\ handled.result # "none"
  /\ IsPluginMessage(handled.msg)
  /\ handled.msg.md["videoroom"] = Str(videoroom)

\* C5: for every 'joined' message with id f and room r, afterwards room is
\* r and feed is f, and the event is videoroom_joined with a publishers
\* list of the same length and order as the message's, each entry
\* {id, display} mapped to {feed: id, display}.
C5_JoinedStoresAndProjects ==
  (Handled("joined") /\ handled.msg.publishers.t = "array") =>
    LET in == handled.msg.publishers.items
        out == handled.event.publishers.items
    IN /\ room = handled.msg.md["room"]
       /\ feed = handled.msg.md["id"]
       /\ handled.result = "event"
       /\ handled.event.event = "videoroom_joined"
       /\ handled.event.publishers.t = "array"
       /\ Len(out) = Len(in)
       /\ \A k \in 1..Len(in) :
            out[k] = [feed |-> in[k].id, display |-> in[k].display]

\* A 'joined' message with two different publishers, for another room and
\* feed than an endpoint already joined would hold.
C5_Witness ==
  /\ Handled("joined")
  /\ room = Room8
  /\ feed = Feed99
  /\ Len(handled.event.publishers.items) = 2
  /\ handled.event.publishers.items[1] # handled.event.publishers.items[2]

\* C7 as claimed: once room and feed are set, no later message brings
\* either back to an unset value.
C7_NeverReset ==
  [][(IsSet(room) /\ IsSet(feed)) => (IsSet(room') /\ IsSet(feed'))]_vars

\* C7, amended: once set, room (resp. feed) becomes unset only by a later
\* 'joined' or 'attached' message that itself carries no room (resp. no
\* id), whose value handleMessage stores as it is; no other message unsets
\* them.
C7_UnsetOnlyByIdentityMessage ==
  [][/\ (IsSet(room) /\ ~IsSet(room')) =>
          /\ HandleStep
          /\ IsPluginMessage(Head(inbox))
          /\ Head(inbox).md["videoroom"] \in {Str("joined"), Str("attached")}
          /\ ~IsSet(Head(inbox).md["room"])
          /\ room' = Head(inbox).md["room"]
     /\ (IsSet(feed) /\ ~IsSet(feed')) =>
          /\ HandleStep
          /\ IsPluginMessage(Head(inbox))
          /\ Head(inbox).md["videoroom"] \in {Str("joined"), Str("attached")}
          /\ ~IsSet(Head(inbox).md["id"])
          /\ feed' = Head(inbox).md["id"]]_vars

\* After the join was confirmed, an 'attached' message without room and id
\* has been handled: room and feed are undefined.
C7_Witness ==
  /\ Handled("attached")
  /\ handled.result = "event"
  /\ room = Undef
  /\ feed = Undef

\* The test handleMessage applies to each field of an 'event'.
Matches(m, f) ==
  CASE f = "error" -> Truthy(m.md["error"])
    [] f = "joining" -> m.joining.t = "object"
    [] f = "publishers" -> m.publishers.t = "array"
    [] OTHER -> IsDefined(m.md[f])

\* The notification each field stands for.
KindOf(f) ==
  CASE f = "error" -> "videoroom_error"
    [] f = "joining" -> "videoroom_publisher_joined"
    [] f = "publishers" -> "videoroom_publisher_list"
    [] f = "configured" -> "videoroom_configured"
    [] f = "display" -> "videoroom_display"
    [] f = "started" -> "videoroom_started"
    [] f = "paused" -> "videoroom_paused"
    [] f = "unpublished" -> "videoroom_unpublished"
    [] f = "leaving" -> "videoroom_leaving"
    [] f = "kicked" -> "videoroom_kicked"
    [] OTHER -> "videoroom_leaving"

\* C8: the notification of an 'event' message is that of the first matching
\* field in the order error, joining, publishers, configured, display,
\* started, paused, unpublished, leaving, kicked, left, for every
\* combination of fields; with no matching field there is none.
C8_FirstMatchWins ==
  Handled("event") =>
    LET hits == {k \in 1..Len(EventFieldOrder) : Matches(handled.msg, EventFieldOrder[k])}
    IN IF hits = {}
         THEN handled.result = "null" /\ handled.event.event = NoEvent
         ELSE /\ handled.result = "event"
              /\ handled.event.event =
                   KindOf(EventFieldOrder[CHOOSE k \in hits : \A j \in hits : k <= j])

\* Leaving, kicked and left together, nothing before them: leaving.
C8_Witness ==
  /\ Handled("event")
  /\ {f \in EventFieldNames : Matches(handled.msg, f)} = {"leaving", "kicked", "left"}
  /\ handled.event.event = "videoroom_leaving"
  /\ handled.event.data["feed"] = feed

\* An 'event' with unpublished = "ok" and a display field, and none of the
\* fields tested before display.
UnpublishedWithDisplay(m) ==
  /\ m.md["unpublished"] = Str("ok")
  /\ IsDefined(m.md["display"])
  /\ \A f \in {"error", "joining", "publishers", "configured"} : ~Matches(m, f)

\* C9 as claimed: an 'event' with unpublished = "ok" and a display field
\* produces videoroom_unpublished, its feed the endpoint's stored feed.
C9_UnpublishedOverDisplay ==
  (Handled("event") /\ UnpublishedWithDisplay(handled.msg)) =>
    /\ handled.event.event = "videoroom_unpublished"
    /\ handled.event.data["feed"] = feed

\* C9, amended: display is tested before unpublished, so such a message
\* produces only videoroom_display, its feed the message's own id; with no
\* display, started or paused field, unpublished = "ok" produces
\* videoroom_unpublished, its feed the endpoint's stored feed and not the
\* message's id.
C9_DisplayOverUnpublished ==
  /\ (Handled("event") /\ UnpublishedWithDisplay(handled.msg)) =>
       /\ handled.event.event = "videoroom_display"
       /\ handled.event.data["feed"] = handled.msg.md["id"]
       /\ handled.event.data["display"] = handled.msg.md["display"]
  /\ (/\ Handled("event")
      /\ handled.msg.md["unpublished"] = Str("ok")
      /\ \A f \in {"error", "joining", "publishers", "configured", "display",
                   "started", "paused"} : ~Matches(handled.msg, f)) =>
       /\ handled.event.event = "videoroom_unpublished"
       /\ handled.event.data["feed"] = feed

\* Both fields on an endpoint that has joined as feed 42, the message's own
\* id being 99: the display event, for feed 99.
C9_Witness ==
  /\ Handled("event")
  /\ UnpublishedWithDisplay(handled.msg)
  /\ feed = Feed42
  /\ handled.event.event = "videoroom_display"
  /\ handled.event.data["feed"] = Feed99

\* C10: the feed of an unpublished (resp. leaving) notification is the
\* endpoint's stored feed when the field is exactly the string "ok", and
\* the field's value otherwise.
C10_SentinelMeansSelf ==
  /\ (Handled("event") /\ handled.event.event = "videoroom_unpublished") =>
       handled.event.data["feed"] =
         IF handled.msg.md["unpublished"] = Str("ok") THEN feed
         ELSE handled.msg.md["unpublished"]
  /\ (Handled("event") /\ handled.event.event = "videoroom_leaving"
        /\ IsDefined(handled.msg.md["leaving"])) =>
       handled.event.data["feed"] =
         IF handled.msg.md["leaving"] = Str("ok") THEN feed
         ELSE handled.msg.md["leaving"]

\* unpublished = 99 on an endpoint that has joined as feed 42: feed 99.
C10_Witness ==
  /\ Handled("event")
  /\ handled.event.event = "videoroom_unpublished"
  /\ handled.msg.md["unpublished"] = Feed99
  /\ feed = Feed42
  /\ handled.event.data["feed"] = Feed99

\* C11: a 'success' message produces exactly one outcome, chosen by the
\* presence of a field, falsy values included, in the order exists, list,
\* allowed: videoroom_exists, else videoroom_list, else videoroom_allowed,
\* else videoroom_success; the event carries the value of the field chosen.
C11_SuccessFirstPresent ==
  Handled("success") =>
    LET md == handled.msg.md
        data == handled.event.data
    IN /\ handled.result = "event"
       /\ handled.event.event =
            IF IsDefined(md["exists"]) THEN "videoroom_exists"
            ELSE IF IsDefined(md["list"]) THEN "videoroom_list"
            ELSE IF IsDefined(md["allowed"]) THEN "videoroom_allowed"
            ELSE "videoroom_success"
       /\ data["exists"] = md["exists"]
       /\ data["list"] = IF IsDefined(md["exists"]) THEN Undef
                         ELSE IF IsDefined(md["list"]) THEN md["list"]
                         ELSE md["allowed"]

\* exists = false together with a list and an allowed field: the exists
\* outcome, carrying false.
C11_Witness ==
  /\ Handled("success")
  /\ handled.msg.md["exists"] = Bool(FALSE)
  /\ IsDefined(handled.msg.md["list"])
  /\ IsDefined(handled.msg.md["allowed"])
  /\ handled.event.event = "videoroom_exists"
  /\ handled.event.data["exists"] = Bool(FALSE)

\* The vocabulary of normalized event names.
EventNames == {PLUGIN_EVENT[k] : k \in DOMAIN PLUGIN_EVENT}

\* C12: a message is assigned one name of the vocabulary or none: what
\* handleMessage returns, what is attached to a resolved transaction, what
\* a facade operation returns and what is emitted bears a name of the
\* vocabulary; a message that is assigned no name is unhandled: nothing is
\* returned, closed or emitted for it.
C12_OneNameOfVocabulary ==
  /\ handled.result = "event" => handled.event.event \in EventNames
  /\ handled.result # "event" =>
       /\ handled.event.event = NoEvent
       /\ handled.calls = <<>>
       /\ ~handled.emitted
  /\ handled.emitted => handled.event.event \in EventNames
  /\ \A i \in TxIds :
       tx[i].status \in {"success", "error"} => tx[i].reply.event \in EventNames
  /\ outcome.kind = "returned" => outcome.payload.event \in EventNames

\* A 'destroyed' reply has resolved a transaction: the name attached is
\* videoroom_destroyed.
C12_Witness ==
  /\ Handled("destroyed")
  /\ handled.result = "event"
  /\ \E i \in TxIds : /\ tx[i].status = "success"
                       /\ tx[i].reply.event = "videoroom_destroyed"

\* The close operations the last handleMessage call invoked.
Invoked(call) == \E k \in 1..Len(handled.calls) : handled.calls[k] = call

\* C13: for an 'event' message carrying an error, on a transaction the
\* endpoint owns, handleMessage invokes
\* close-with-error and does not invoke close-with-success, so that it never
\* invokes two close operations on one transaction for one message.
C13_ErrorClosesWithErrorOnly ==
  (Handled("event") /\ handled.event.isError /\ handled.owned) =>
    /\ Invoked("error")
    /\ ~Invoked("success")
    /\ Len(handled.calls) <= 1

\* C14: handleMessage invokes a close operation only for a message whose
\* transaction the endpoint owned when the ownership test was made; for a
\* message of a transaction it does not own, or of none, it invokes no
\* close operation.
C14_ClosesOnlyWhenOwned ==
  handled.calls # <<>> => handled.owned

\* C15: when an 'event' message carrying an error code c arrives with the
\* id of a transaction the endpoint owns, the transaction is closed with
\* error and the pending operation, once resumed, rejects with the typed
\* error whose code is c; it returns no payload, sends no request and opens
\* no transaction again.
C15_RemoteErrorRejects ==
  [][/\ (/\ HandleStep
          /\ IsPluginMessage(Head(inbox))
          /\ IsErrorEvent(Head(inbox))
          /\ OwnsTransaction(tx, Head(inbox).transaction)) =>
            tx'[TxIndex(Head(inbox).transaction)].status = "error"
     /\ \A i \in TxIds :
          (tx[i].status = "error" /\ tx'[i].status # "error") =>
            /\ handled.msg.transaction = Num(i)
            /\ IsErrorEvent(handled.msg)
            /\ outcome'.kind = "rejected"
            /\ outcome'.error = "remote"
            /\ outcome'.op = tx[i].op
            /\ outcome'.tx = i
            /\ outcome'.payload.isError
            /\ outcome'.code = handled.msg.md["error_code"]
            /\ tx'[i].status = "rejected"
            /\ sent' = sent
            /\ \A j \in TxIds : tx'[j].status = "open" => tx[j].status = "open"]_vars

\* joinSubscriber has rejected with the code 432 of the error message that
\* bore its transaction id.
C15_Witness ==
  /\ outcome.kind = "rejected"
  /\ outcome.error = "remote"
  /\ outcome.op = "joinSubscriber"
  /\ outcome.code = Num(432)
  /\ handled.msg.md["error_code"] = Num(432)
  /\ handled.msg.transaction = Num(outcome.tx)

\* C16: an 'event' message carrying an error whose transaction the endpoint
\* does not own, or that bears none, is emitted as videoroom_error with the
\* typed error as payload, and no transaction of the endpoint is resolved
\* or rejected by it.
C16_UnsolicitedErrorEmitted ==
  [][(/\ HandleStep
      /\ IsPluginMessage(Head(inbox))
      /\ IsErrorEvent(Head(inbox))
      /\ ~OwnsTransaction(tx, Head(inbox).transaction)) =>
        /\ handled'.result = "event"
        /\ handled'.emitted
        /\ handled'.event.event = "videoroom_error"
        /\ handled'.event.isError
        /\ handled'.event.data["_code"] = Head(inbox).md["error_code"]
        /\ handled'.event.data["error"] = Head(inbox).md["error"]
        /\ tx' = tx
        /\ \A k \in 1..Len(handled'.closed) : ~handled'.closed[k]]_vars

\* An error message of another handle's transaction, while the endpoint has
\* a transaction open: emitted, the transaction still open.
C16_Witness ==
  /\ Handled("event")
  /\ handled.event.isError
  /\ handled.msg.transaction = Num(OtherTx)
  /\ handled.emitted
  /\ \E i \in TxIds : tx[i].status = "open"

\* C17: the ownership test is made once, before the message is classified,
\* and its result alone decides the emission: an event is emitted exactly
\* when the endpoint did not own the transaction at that point.  An error
\* message of an owned transaction is therefore not emitted, although the
\* transaction is closed, and no longer owned, when the emission is decided.
C17_OwnershipCapturedOnce ==
  [][(HandleStep /\ handled'.result = "event") =>
       /\ handled'.emitted = ~OwnsTransaction(tx, Head(inbox).transaction)
       /\ handled'.owned = OwnsTransaction(tx, Head(inbox).transaction)
       /\ (handled'.event.isError /\ OwnsTransaction(tx, Head(inbox).transaction)) =>
            /\ ~OwnsTransaction(tx', Head(inbox).transaction)
            /\ ~handled'.emitted]_vars

\* An error message of an owned transaction has been handled: the
\* transaction is closed with error, its caller not yet resumed, and
\* nothing was emitted.
C17_Witness ==
  /\ Handled("event")
  /\ handled.event.isError
  /\ handled.owned
  /\ ~handled.emitted
  /\ ~OwnsTransaction(tx, handled.msg.transaction)
  /\ tx[TxIndex(handled.msg.transaction)].status = "error"

\* C18: for every facade operation, when the reply that closed its
\* transaction with success bears an event name other than the one the
\* operation expects, the operation rejects with the error 'unexpected
\* response to <request> request', <request> being the name of the request
\* it sent, and returns no payload; an operation returns only on the
\* expected name.
C18_ContractViolation ==
  [][\A i \in TxIds :
       (tx[i].status = "success" /\ tx'[i].status # "success") =>
         /\ tx[i].reply.event # ExpectedEvent(tx[i].op) =>
              /\ outcome'.kind = "rejected"
              /\ outcome'.error = "contract"
              /\ outcome'.op = tx[i].op
              /\ outcome'.request = RequestName(tx[i].op)
              /\ outcome'.payload = EmptyEvent
              /\ tx'[i].status = "rejected"
         /\ outcome'.kind = "returned" =>
              /\ tx[i].reply.event = ExpectedEvent(tx[i].op)
              /\ outcome'.payload.event = ExpectedEvent(tx[i].op)]_vars

\* listForward was answered with a generic success: it has rejected, the
\* error naming the listforwarders request.
C18_Witness ==
  /\ outcome.kind = "rejected"
  /\ outcome.error = "contract"
  /\ outcome.op = "listForward"
  /\ outcome.request = "listforwarders"
  /\ handled.event.event = "videoroom_success"
  /\ handled.msg.transaction = Num(outcome.tx)

\* The acknowledgment an operation looks for in its reply.
Acknowledgment(op) ==
  CASE op \in {"configure", "publish"} -> "configured"
    [] op = "start" -> "started"
    [] OTHER -> "paused"

\* C19: configure and publish return only on a videoroom_configured reply
\* whose configured member is the string "ok", start only on
\* videoroom_started with started "ok", pause only on videoroom_paused with
\* paused "ok"; a reply of the expected name with any other value makes the
\* operation reject with a contract violation.
C19_AcknowledgmentRequired ==
  [][\A i \in TxIds :
       (/\ tx[i].status = "success"
        /\ tx'[i].status # "success"
        /\ tx[i].op \in {"configure", "publish", "start", "pause"}) =>
         LET reply == tx[i].reply
             acked == /\ reply.event = ExpectedEvent(tx[i].op)
                      /\ reply.data[Acknowledgment(tx[i].op)] = Str("ok")
         IN /\ outcome'.kind = "returned" <=> acked
            /\ ~acked => /\ outcome'.kind = "rejected"
                         /\ outcome'.error = "contract"
                         /\ outcome'.request = RequestName(tx[i].op)
                         /\ outcome'.payload = EmptyEvent]_vars

\* publish was answered with videoroom_configured whose configured member
\* is not "ok": it has rejected with a contract violation.
C19_Witness ==
  /\ outcome.kind = "rejected"
  /\ outcome.error = "contract"
  /\ outcome.op = "publish"
  /\ handled.msg.transaction = Num(outcome.tx)
  /\ handled.event.event = "videoroom_configured"
  /\ handled.event.data["configured"] = Str("failed")

\* A negotiation payload, an object or an array, whose type is not 'offer'.
NotAnOffer(jsep) == jsep.t \in {"object", "array"} /\ jsep \notin {Offer}

\* C20: publish called with a negotiation payload that is not an offer
\* rejects at once with a caller-input error: no request is sent, no
\* transaction is opened and no hangup is issued; no publish request ever
\* goes out with such a payload.
C20_PublishRefusesNonOffer ==
  [][/\ (outcome'.error = "input" /\ outcome.error # "input") =>
          /\ outcome'.kind = "rejected"
          /\ outcome'.op = "publish"
          /\ outcome'.tx = 0
          /\ outcome'.payload = EmptyEvent
          /\ sent = NothingSent
          /\ sent' = NothingSent
          /\ tx' = tx
          /\ hangups' = hangups
     /\ \A i \in TxIds :
          (tx[i].status # "open" /\ tx'[i].status = "open" /\ tx'[i].op = "publish") =>
            ~NotAnOffer(tx'[i].params.jsep)
     /\ (sent' # sent /\ sent'.op = "publish") => ~NotAnOffer(sent'.jsep)]_vars

\* publish with an answer has rejected on an endpoint with an earlier
\* request finished: nothing was sent, no transaction is open.
C20_Witness ==
  /\ outcome.kind = "rejected"
  /\ outcome.error = "input"
  /\ outcome.op = "publish"
  /\ sent = NothingSent
  /\ \A i \in TxIds : tx[i].status # "open"
  /\ \E i \in TxIds : tx[i].status \in {"returned", "rejected"}

\* The catch handler of transaction i runs in this step.
CatchStep(i) == tx[i].status = "error" /\ ~tx[i].caught /\ tx'[i].caught

\* The caller of transaction i, closed with error, is rejected in this step.
RejectStep(i) == tx[i].status = "error" /\ tx'[i].status = "rejected"

\* The request of transaction i had a negotiation payload attached.
WithJsep(i) == tx[i].op \in NegotiationOps /\ Truthy(tx[i].params.jsep)

\* The remote code of the error that closed transaction i.
RemoteCode(i) == tx[i].reply.data["_code"]

\* The code is the number k to the comparisons: the number itself, or a
\* text or an array that is converted to it (e._code == k).
Stands(code, k) == ~CodeDiffers(code, k)

\* The error carries a numeric code: a code that is a number or is
\* converted to one.
Numeric(code) == code.t \notin {"undefined", "null"} /\ ~ToNumber(code).nan

\* The cleanup range as the specification lists it, from missing-feed (428)
\* to invalid-negotiation-body (437).
InListedRange(code) == CodeWithin(code, 428, 437)

\* The codes on which the cleanup fires: missing-element (429) to
\* invalid-negotiation-body (437), already-published (434) excepted.
Qualifies(code) == CodeWithin(code, 429, 437) /\ ~Stands(code, 434)

\* C21: a configure call, with a negotiation payload, whose send fails with
\* a remote code of the cleanup range, missing-feed (428) to
\* invalid-negotiation-body (437) without already-published, issues exactly
\* one hangup request, and its caller is rejected with the original error,
\* whether the hangup is pending, has succeeded or has failed; the settling
\* of the hangup changes nothing else.
C21_CleanupOnFailure ==
  [][/\ \A i \in TxIds :
          (/\ tx[i].op = "configure"
           /\ WithJsep(i)
           /\ InListedRange(RemoteCode(i))
           /\ ~Stands(RemoteCode(i), 434)) =>
            /\ CatchStep(i) => /\ hangups' = hangups + 1
                               /\ hangup' = "pending"
                               /\ outcome' = outcome
            /\ RejectStep(i) => /\ tx[i].caught
                                /\ hangups' = hangups
                                /\ hangup' = hangup
                                /\ outcome'.kind = "rejected"
                                /\ outcome'.error = "remote"
                                /\ outcome'.payload = tx[i].reply
                                /\ outcome'.code = RemoteCode(i)
     /\ hangups' # hangups => \E i \in TxIds : CatchStep(i)
     /\ (hangup = "pending" /\ hangup' \in {"ok", "failed"}) =>
          UNCHANGED <<room, feed, tx, inbox, handled, outcome, sent, hangups>>]_vars

\* C22: a negotiation request with an offer attached that fails with the
\* missing-feed code 428 issues the hangup, like the other codes of the
\* range.
C22_MissingFeedCleansUp ==
  [][\A i \in TxIds :
       (CatchStep(i) /\ WithJsep(i) /\ RemoteCode(i) = Num(428)) =>
         /\ hangups' = hangups + 1
         /\ hangup' = "pending"]_vars

\* C23: when joinConfigurePublisher, configure or publish fails with the
\* already-published code 434, or with a code outside the cleanup range,
\* no hangup is issued and the caller is rejected with the original error.
C23_AlreadyPublishedExcluded ==
  [][\A i \in TxIds :
       (/\ tx[i].op \in NegotiationOps
        /\ \/ Stands(RemoteCode(i), 434)
           \/ ~InListedRange(RemoteCode(i))) =>
         /\ CatchStep(i) => (hangups' = hangups /\ hangup' = hangup)
         /\ RejectStep(i) => /\ tx[i].caught
                             /\ hangups' = hangups
                             /\ ~outcome'.hangup
                             /\ outcome'.error = "remote"
                             /\ outcome'.payload = tx[i].reply
                             /\ outcome'.code = RemoteCode(i)]_vars

\* publish, with an offer, failed with 434: its catch handler has run and
\* no hangup was ever issued.
C23_Witness ==
  \E i \in TxIds :
    /\ tx[i].status = "error"
    /\ tx[i].caught
    /\ tx[i].op = "publish"
    /\ tx[i].params.jsep = Offer
    /\ RemoteCode(i) = Num(434)
    /\ hangups = 0
    /\ hangup = "none"

\* C24: whenever a negotiation request qualifies for cleanup, its hangup
\* has been issued, in an earlier step, when its caller is rejected: no
\* caller observes the rejection before the hangup request.
C24_HangupBeforeRejection ==
  [][\A i \in TxIds :
       (RejectStep(i) /\ WithJsep(i) /\ Qualifies(RemoteCode(i))) =>
         /\ tx[i].caught
         /\ hangups >= 1
         /\ hangup # "none"
         /\ hangups' = hangups
         /\ outcome'.hangup]_vars

\* joinConfigurePublisher has been rejected with a qualifying error while
\* the hangup it issued is still pending.
C24_Witness ==
  /\ outcome.kind = "rejected"
  /\ outcome.op = "joinConfigurePublisher"
  /\ outcome.error = "remote"
  /\ Qualifies(outcome.code)
  /\ outcome.hangup
  /\ hangups >= 1
  /\ hangup = "pending"

\* The optional members of the body of an operation that are guarded by a
\* type test: the member, the parameter it comes from and its type.
TypedOptionals(op) ==
  (IF op \in {"joinPublisher", "joinConfigurePublisher", "configure", "publish"}
     THEN {<<"display", "display", "string">>} ELSE {})
  \cup (IF op = "configure"
          THEN {<<"restart", "restart", "boolean">>, <<"update", "update", "boolean">>}
          ELSE {})
  \cup (IF op \in {"listParticipants", "kick", "create", "destroy", "allow",
                   "startForward", "stopForward", "listForward"}
          THEN {<<"secret", "secret", "string">>} ELSE {})
  \cup (IF op = "startForward"
          THEN {<<"host", "host", "string">>, <<"audio_port", "audio_port", "number">>,
                <<"video_port", "video_port", "number">>,
                <<"data_port", "data_port", "number">>}
          ELSE {})

\* The parameters of the request last sent.
SentParams == tx[sent.tx].params

\* In the body last sent, every type-guarded optional member is the
\* parameter when it was supplied with the expected type, and is left out
\* otherwise.
TypedOptionalsPresenceTyped ==
  \A o \in TypedOptionals(sent.op) :
    sent.body[o[1]] = IF SentParams[o[2]].t = o[3] THEN SentParams[o[2]] ELSE Undef

\* C25 as claimed: no optional parameter is defaulted: one that was not
\* supplied, or was supplied with the wrong type, is left out of the body;
\* joinPublisher without a feed, joinSubscriber without a feed and create
\* without a room send no id, feed or room.
C25_NeverDefaulted ==
  sent # NothingSent =>
    /\ TypedOptionalsPresenceTyped
    /\ (sent.op \in {"joinPublisher", "joinConfigurePublisher"}
          /\ ~IsDefined(SentParams.feed)) => ~IsDefined(sent.body["id"])
    /\ (sent.op \in {"joinSubscriber", "joinListener"}
          /\ ~IsDefined(SentParams.feed)) => ~IsDefined(sent.body["feed"])
    /\ (sent.op = "create" /\ ~IsDefined(SentParams.room)) =>
          ~IsDefined(sent.body["room"])

\* C25, amended: the optional members guarded by a type test are left out
\* unless supplied with the expected type, and joinSubscriber without a
\* feed sends no feed; but the feed of joinPublisher and
\* joinConfigurePublisher and the room of create have the default 0 in the
\* parameter list, and are sent as id 0 and room 0 when not supplied.
C25_PresenceTypedButForDefaults ==
  sent # NothingSent =>
    /\ TypedOptionalsPresenceTyped
    /\ sent.op \in {"joinPublisher", "joinConfigurePublisher"} =>
         sent.body["id"] = IF IsDefined(SentParams.feed) THEN SentParams.feed ELSE Num(0)
    /\ sent.op \in {"joinSubscriber", "joinListener"} =>
         sent.body["feed"] = SentParams.feed
    /\ sent.op = "create" =>
         sent.body["room"] = IF IsDefined(SentParams.room) THEN SentParams.room ELSE Num(0)

\* joinPublisher was called without a feed and with a display that is not
\* a string: the body carries id 0 and no display.
C25_Witness ==
  /\ sent.op = "joinPublisher"
  /\ ~IsDefined(SentParams.feed)
  /\ SentParams.display = Num(5)
  /\ sent.body["id"] = Num(0)
  /\ ~IsDefined(sent.body["display"])

\* configure, called with the parameters of transaction i and acknowledged
\* with configured 'ok', returns in this step.
ConfigureReturns(i) ==
  /\ tx[i].op = "configure"
  /\ tx[i].status = "success"
  /\ tx[i].reply.event = "videoroom_configured"
  /\ tx[i].reply.data["configured"] = Str("ok")
  /\ tx'[i].status = "returned"

\* C26: when configure is called with a boolean restart (resp. a boolean
\* update, resp. a display) and the reply is the configured acknowledgment
\* 'ok', the payload it returns has restart (resp. update, resp. display)
\* equal to the requested value.
C26_ConfigureEchoesRequest ==
  [][\A i \in TxIds :
       ConfigureReturns(i) =>
         LET p == tx[i].params
         IN /\ outcome'.kind = "returned"
            /\ p.restart.t = "boolean" => outcome'.payload.data["restart"] = p.restart
            /\ p.update.t = "boolean" => outcome'.payload.data["update"] = p.update
            /\ (p.display.t = "string" /\ Truthy(p.display)) =>
                 outcome'.payload.data["display"] = p.display]_vars

\* The descriptor d has the fields of no media type but those of S.
OnlyMedia(d, S) ==
  /\ "audio" \notin S =>
       d.audio_port = Undef /\ d.audio_rtcp_port = Undef /\ d.audio_stream = Undef
  /\ "video" \notin S =>
       d.video_port = Undef /\ d.video_rtcp_port = Undef /\ d.video_stream = Undef
  /\ "data" \notin S => d.data_port = Undef /\ d.data_stream = Undef

\* The media types for which an rtp_stream reports a non-zero port.
StreamMedia(rs) ==
  {k \in {"audio", "video", "data"} : rs[k].t = "number" /\ rs[k].n # 0}

\* The media types for which a snapshot entry reports a non-zero stream id.
ListedMedia(forw) ==
  {k \in {"audio", "video", "data"} :
     LET id == CASE k = "audio" -> forw.audio_stream_id
                 [] k = "video" -> forw.video_stream_id
                 [] OTHER -> forw.data_stream_id
     IN id.t = "number" /\ id.n # 0}

\* The descriptor d carries the host and, of the media types, the fields
\* of exactly those of S: port, rtcp port (none for data) and stream id.
Projects(d, host, S, port, rtcp, stream) ==
  /\ d.t = "object"
  /\ d.host = host
  /\ OnlyMedia(d, S)
  /\ "audio" \in S => /\ d.audio_port = port["audio"]
                      /\ d.audio_rtcp_port = rtcp["audio"]
                      /\ d.audio_stream = stream["audio"]
  /\ "video" \in S => /\ d.video_port = port["video"]
                      /\ d.video_rtcp_port = rtcp["video"]
                      /\ d.video_stream = stream["video"]
  /\ "data" \in S => /\ d.data_port = port["data"]
                     /\ d.data_stream = stream["data"]

\* The values of one media-indexed triple.
PerMedia(a, v, d) == [k \in {"audio", "video", "data"} |->
                       CASE k = "audio" -> a [] k = "video" -> v [] OTHER -> d]

\* C27: the descriptor of an 'rtp_forward' message always carries the host
\* and carries the fields of a media type if and only if the gateway
\* reported a non-zero value for it (its port); every descriptor of a
\* 'forwarders' snapshot is built by the same rule from the entry (its
\* stream id being the value reported for the media type), one descriptor
\* per entry and one list per publisher, in the order of the message.
C27_PerMediaProjection ==
  /\ (Handled("rtp_forward") /\ handled.result # "throw") =>
       LET rs == handled.msg.rtp_stream
       IN /\ handled.event.event = "videoroom_rtp_fwd_started"
          /\ Projects(handled.event.forwarder, rs.host, StreamMedia(rs),
                      PerMedia(rs.audio, rs.video, rs.data),
                      PerMedia(rs.audio_rtcp, rs.video_rtcp, Undef),
                      PerMedia(rs.audio_stream_id, rs.video_stream_id, rs.data_stream_id))
  /\ (Handled("forwarders") /\ handled.result # "throw") =>
       LET pubs == handled.msg.rtp_forwarders.items
           out == handled.event.forwarders
       IN /\ handled.event.event = "videoroom_rtp_fwd_list"
          /\ out.t = "array"
          /\ Len(out.items) = Len(pubs)
          /\ \A k \in 1..Len(pubs) :
               /\ out.items[k].feed = pubs[k].publisher_id
               /\ Len(out.items[k].forwarders) = Len(pubs[k].rtp_forwarder)
               /\ \A j \in 1..Len(pubs[k].rtp_forwarder) :
                    LET forw == pubs[k].rtp_forwarder[j]
                    IN Projects(out.items[k].forwarders[j], forw.ip, ListedMedia(forw),
                                PerMedia(forw.port, forw.port, forw.port),
                                PerMedia(forw.remote_rtcp_port, forw.remote_rtcp_port, Undef),
                                PerMedia(forw.audio_stream_id, forw.video_stream_id,
                                         forw.data_stream_id))

\* An 'rtp_forward' message reporting an audio port and a zero video port
\* has been classified: the descriptor has the host and the audio fields,
\* and no video field.
C27_Witness ==
  /\ Handled("rtp_forward")
  /\ handled.msg.rtp_stream.audio = Num(5002)
  /\ handled.msg.rtp_stream.video = Num(0)
  /\ handled.event.forwarder.host = Str("10.0.0.1")
  /\ handled.event.forwarder.audio_port = Num(5002)
  /\ handled.event.forwarder.audio_stream = Num(1)
  /\ handled.event.forwarder.video_port = Undef

\* The descriptor of the video-only forwarder fw: the host and the video
\* fields, no audio and no data field.
VideoDescriptor(fw) ==
  [NoForwarder EXCEPT !.t = "object", !.host = fw.host, !.video_port = fw.port,
                      !.video_rtcp_port = fw.rtcp, !.video_stream = fw.stream]

\* The operation op of transaction i returns in this step.
Returns(i, op) ==
  tx[i].op = op /\ tx[i].status = "success" /\ tx'[i].status = "returned"

\* The request of transaction i contained, of the ports, only video_port.
OnlyVideoPort(i) ==
  /\ tx[i].params.video_port.t = "number"
  /\ tx[i].params.audio_port = Undef
  /\ tx[i].params.data_port = Undef

\* The descriptors a listForward payload holds for a feed.
DescriptorsFor(payload, id) ==
  {payload.forwarders.items[k].forwarders :
     k \in {j \in 1..Len(payload.forwarders.items) :
              payload.forwarders.items[j].feed = id}}

\* C28: for every video-only forwarder fw of the gateway, a startForward
\* request containing only video_port, answered by the rtp_forward reply
\* that describes fw, returns the descriptor of fw with the video fields
\* and no audio or data field, and a listForward answered by the snapshot
\* that lists fw for the feed returns for that feed that same descriptor.
C28_ForwarderRoundTrip ==
  [][\A i \in TxIds : \A fw \in GatewayForwarders :
       /\ (/\ Returns(i, "startForward")
           /\ OnlyVideoPort(i)
           /\ handled.msg.rtp_stream = RtpStreamOf(fw)) =>
            /\ outcome'.kind = "returned"
            /\ outcome'.payload.event = "videoroom_rtp_fwd_started"
            /\ outcome'.payload.data["feed"] = handled.msg.md["publisher_id"]
            /\ outcome'.payload.forwarder = VideoDescriptor(fw)
       /\ (/\ Returns(i, "listForward")
           /\ handled.msg.rtp_forwarders.t = "array"
           /\ \E k \in 1..Len(handled.msg.rtp_forwarders.items) :
                /\ handled.msg.rtp_forwarders.items[k].publisher_id = Feed99
                /\ handled.msg.rtp_forwarders.items[k].rtp_forwarder
                     = <<SnapshotEntryOf(fw)>>) =>
            /\ outcome'.kind = "returned"
            /\ outcome'.payload.event = "videoroom_rtp_fwd_list"
            /\ DescriptorsFor(outcome'.payload, Feed99) = {<<VideoDescriptor(fw)>>}]_vars

\* startForward has returned and the listForward that followed it has
\* returned, for feed 99, the descriptor of the forwarder with port 5004,
\* rtcp port 5005 and stream 1: video fields and no audio or data field.
C28_Witness ==
  /\ tx[1].status = "returned"
  /\ outcome.kind = "returned"
  /\ outcome.op = "listForward"
  /\ outcome.tx = 2
  /\ \E k \in 1..Len(outcome.payload.forwarders.items) :
       /\ outcome.payload.forwarders.items[k].feed = Feed99
       /\ Len(outcome.payload.forwarders.items[k].forwarders) = 1
       /\ LET d == outcome.payload.forwarders.items[k].forwarders[1]
          IN /\ d.host = Str("10.0.0.1")
             /\ d.video_port = Num(5004)
             /\ d.video_rtcp_port = Num(5005)
             /\ d.video_stream = Num(1)
             /\ d.audio_port = Undef
             /\ d.data_port = Undef

\* C29: when handleMessage classifies a 'slow_link' message, the feed of
\* the videoroom_slowlink event is the feed the endpoint has stored at that
\* time (null before any 'joined' or 'attached' message, the id of the last
\* one after), whatever feed the message names, and its bitrate is the
\* current-bitrate of the message.
C29_SlowLinkOwnFeed ==
  [][(/\ HandleStep
      /\ IsPluginMessage(Head(inbox))
      /\ Head(inbox).md["videoroom"] = Str("slow_link")) =>
       /\ handled'.result = "event"
       /\ handled'.event.event = "videoroom_slowlink"
       /\ handled'.event.data["feed"] = feed
       /\ handled'.event.data["bitrate"] = Head(inbox).md["current-bitrate"]
       /\ feed' = feed]_vars

\* After a 'joined' message with id 42, a 'slow_link' message naming feed
\* 1234 has produced an event with feed 42 and the reported bitrate.
C29_Witness ==
  /\ Handled("slow_link")
  /\ handled.msg.md["feed"] = Num(1234)
  /\ feed = Feed42
  /\ handled.event.event = "videoroom_slowlink"
  /\ handled.event.data["feed"] = Feed42
  /\ handled.event.data["bitrate"] = Num(64000)

\* C30: kick returns if and only if the reply that resolves its
\* transaction is the generic videoroom_success event, and the payload it
\* returns then has the room and the feed of the request; on a reply
\* classified as any other event, the videoroom_kicked notification
\* included, it rejects with the contract violation that names the kick
\* request and returns no payload.
C30_KickReturnsOnSuccessOnly ==
  [][\A i \in TxIds :
       (tx[i].op = "kick" /\ tx[i].status = "success" /\ tx'[i].status # "success") =>
         /\ outcome'.op = "kick"
         /\ outcome'.kind = "returned" <=> tx[i].reply.event = "videoroom_success"
         /\ outcome'.kind = "returned" =>
              /\ tx'[i].status = "returned"
              /\ outcome'.payload.event = "videoroom_success"
              /\ outcome'.payload.data["room"] = tx[i].params.room
              /\ outcome'.payload.data["feed"] = tx[i].params.feed
         /\ tx[i].reply.event # "videoroom_success" =>
              /\ tx'[i].status = "rejected"
              /\ outcome'.kind = "rejected"
              /\ outcome'.error = "contract"
              /\ outcome'.request = "kick"
              /\ outcome'.payload = EmptyEvent]_vars

\* kick has rejected with a contract violation on the videoroom_kicked
\* notification that bore the id of its transaction.
C30_Witness ==
  /\ outcome.op = "kick"
  /\ outcome.kind = "rejected"
  /\ outcome.error = "contract"
  /\ outcome.request = "kick"
  /\ handled.event.event = "videoroom_kicked"
  /\ handled.msg.transaction = Num(outcome.tx)
  /\ handled.owned

\* C31: when joinConfigurePublisher, configure or publish is called without
\* a jsep, no hangup request is issued, whatever the remote code its send
\* fails with: neither its catch handler nor its rejection issues one, and
\* every hangup request is issued by the catch handler of a request that
\* had a jsep attached.
C31_NoCleanupWithoutJsep ==
  [][/\ \A i \in TxIds :
          (tx[i].op \in NegotiationOps /\ ~Truthy(tx[i].params.jsep)) =>
            /\ CatchStep(i) => (hangups' = hangups /\ hangup' = hangup)
            /\ RejectStep(i) => /\ hangups' = hangups
                                /\ hangup' = hangup
                                /\ ~outcome'.hangup
                                /\ outcome'.error = "remote"
                                /\ outcome'.code = RemoteCode(i)
     /\ hangups' # hangups => \E i \in TxIds : CatchStep(i) /\ WithJsep(i)]_vars

\* configure, called without a jsep, has been rejected with the room-full
\* error 432, and no hangup was ever issued.
C31_Witness ==
  /\ outcome.kind = "rejected"
  /\ outcome.op = "configure"
  /\ outcome.error = "remote"
  /\ outcome.code = Num(432)
  /\ ~outcome.hangup
  /\ hangups = 0
  /\ hangup = "none"

\* C32: a negotiation request whose transaction is closed with success but
\* whose reply is not the one it expects rejects with the contract
\* violation, its catch handler never having run; one whose send fails with
\* an error that carries no numeric remote code rejects with that error;
\* neither issues a hangup request, and every hangup request is issued for
\* a send that failed with a numeric remote code.
C32_CleanupOnlyOnRemoteError ==
  [][/\ \A i \in TxIds :
          tx[i].op \in NegotiationOps =>
            /\ (tx[i].status = "success" /\ tx'[i].status = "rejected") =>
                 /\ ~tx[i].caught
                 /\ outcome'.kind = "rejected"
                 /\ outcome'.error = "contract"
                 /\ ~outcome'.hangup
                 /\ hangups' = hangups
                 /\ hangup' = hangup
            /\ (tx[i].status = "error" /\ ~Numeric(RemoteCode(i))) =>
                 /\ CatchStep(i) => (hangups' = hangups /\ hangup' = hangup)
                 /\ RejectStep(i) => /\ outcome'.kind = "rejected"
                                     /\ outcome'.error = "remote"
                                     /\ outcome'.payload = tx[i].reply
                                     /\ ~outcome'.hangup
                                     /\ hangups' = hangups
                                     /\ hangup' = hangup
     /\ hangups' # hangups =>
          \E i \in TxIds : /\ CatchStep(i)
                           /\ tx[i].status = "error"
                           /\ Numeric(RemoteCode(i))]_vars

\* The send of configure, with an offer, failed with an error that carries
\* no code: its catch handler has run and no hangup was ever issued.
C32_Witness ==
  \E i \in TxIds :
    /\ tx[i].status = "error"
    /\ tx[i].caught
    /\ tx[i].op = "configure"
    /\ tx[i].params.jsep = Offer
    /\ RemoteCode(i) = Undef
    /\ hangups = 0
    /\ hangup = "none"

\* handleMessage processes a 'joined' or 'attached' message in this step.
IdentityStep ==
  /\ HandleStep
  /\ IsPluginMessage(Head(inbox))
  /\ Head(inbox).md["videoroom"] \in {Str("joined"), Str("attached")}

\* C33: every 'joined' or 'attached' message that handleMessage processes
\* stores its room and its id as the room and feed of the endpoint, whether
\* the endpoint owns the transaction the message bears, another handle
\* does, or it bears none, and whatever requests are open; no other step
\* changes them, so that room and feed are always those of the last such
\* message.
C33_LastIdentityMessageWins ==
  [][/\ IdentityStep => /\ room' = Head(inbox).md["room"]
                        /\ feed' = Head(inbox).md["id"]
     /\ ~IdentityStep => (room' = room /\ feed' = feed)]_vars

\* While two joinPublisher requests are open, a 'joined' message that bears
\* no transaction id has been handled: it was emitted, it resolved neither
\* request, and room and feed are its room and id.
C33_Witness ==
  /\ Handled("joined")
  /\ handled.msg.transaction = Undef
  /\ ~handled.owned
  /\ handled.emitted
  /\ \A i \in {1, 2} : tx[i].status = "open" /\ tx[i].op = "joinPublisher"
  /\ room = handled.msg.md["room"]
  /\ feed = handled.msg.md["id"]
  /\ room = Room7
  /\ feed = Feed42

\* The 'event' message m is classified as a notification whose feed is
\* resolved from the endpoint: configured, started, paused, unpublished or
\* leaving with the 'ok' sentinel, or left; name is the event it produces.
FeedFromEndpoint(m, name) ==
  /\ IsPluginMessage(m)
  /\ m.md["videoroom"] = Str("event")
  /\ \/ name \in {"videoroom_configured", "videoroom_started", "videoroom_paused"}
     \/ name = "videoroom_unpublished" /\ m.md["unpublished"] = Str("ok")
     \/ name = "videoroom_leaving" /\ m.md["leaving"] = Str("ok")
     \/ name = "videoroom_leaving" /\ m.md["leaving"] = Undef

\* C34: the notifications whose feed is resolved from the endpoint carry
\* the feed stored when handleMessage classifies the message: null before
\* any 'joined' or 'attached' message, the id of the last one after,
\* whenever the request the message answers was issued; classifying them
\* leaves the stored feed as it is.
C34_FeedAtClassification ==
  [][(HandleStep /\ FeedFromEndpoint(Head(inbox), handled'.event.event)) =>
       /\ handled'.result = "event"
       /\ handled'.event.data["feed"] = feed
       /\ feed' = feed]_vars

\* configure was requested first and joinPublisher second; the 'joined'
\* reply of the second has stored feed 42, and the configured message that
\* then closed the first has produced an event with feed 42.
C34_Witness ==
  /\ Handled("event")
  /\ handled.event.event = "videoroom_configured"
  /\ handled.msg.transaction = Num(1)
  /\ handled.owned
  /\ tx[1].op = "configure"
  /\ tx[1].status = "success"
  /\ tx[2].status = "returned"
  /\ feed = Feed42
  /\ handled.event.data["feed"] = Feed42

\* The operation of transaction i has returned or rejected.
Terminated(i) == tx[i].status \in {"returned", "rejected"}

\* C35: when the gateway answers every open transaction with a message the
\* classifier recognizes, every operation in flight eventually returns or
\* rejects; and a message bearing the id of an open transaction that the
\* classifier does not recognize, or on which it throws, leaves the
\* operation suspended.
C35_OperationsTerminate ==
  /\ \A i \in TxIds : (tx[i].status = "open") ~> Terminated(i)
  /\ [][(/\ HandleStep
          /\ OwnsTransaction(tx, Head(inbox).transaction)
          /\ handled'.result \in {"null", "throw"}) =>
           /\ tx' = tx
           /\ outcome' = outcome]_vars

\* joinPublisher and configure were open together; first an unrecognized
\* message bore the id of the second, then its configured reply: configure
\* has returned, joinPublisher having terminated before.
C35_Witness ==
  /\ Terminated(1)
  /\ tx[2].status = "returned"
  /\ outcome.kind = "returned"
  /\ outcome.op = "configure"
  /\ outcome.tx = 2
  /\ handled.owned
  /\ handled.event.event = "videoroom_configured"

\* C36: when the cleanup fires, the rejection of the caller does not wait
\* for the hangup: once the catch handler has run the caller can be
\* resumed, whatever the state of the hangup request, and it is eventually
\* rejected with the original error even if the hangup request is never
\* answered; the rejection leaves the hangup request as it is, pending
\* when it was pending.
C36_FireAndForget ==
  /\ \A i \in TxIds :
       (tx[i].status = "error" /\ WithJsep(i) /\ Qualifies(RemoteCode(i)))
         ~> (tx[i].status = "rejected")
  /\ [](\A i \in TxIds : (tx[i].status = "error" /\ tx[i].caught) => ENABLED Resume(i))
  /\ [][\A i \in TxIds :
          (RejectStep(i) /\ WithJsep(i) /\ Qualifies(RemoteCode(i))) =>
            /\ outcome'.kind = "rejected"
            /\ outcome'.error = "remote"
            /\ outcome'.payload = tx[i].reply
            /\ outcome'.hangup
            /\ hangup' = hangup]_vars

\* configure has been rejected with the room-full error 432 and the turn
\* has ended: its caller has observed the rejection, and the hangup
\* request is still pending.
C36_Witness ==
  /\ tx[1].status = "rejected"
  /\ tx[1].caught = FALSE
  /\ outcome = NoOutcome
  /\ handled = NothingHandled
  /\ hangups = 1
  /\ hangup = "pending"
  /\ \A i \in TxIds : tx[i].status \in {"rejected", "unused"}

====
